---- MODULE Spec2Model ----
(***************************************************************************)
(* A model of the hack-a-gallery orchestration tier: the multi-agent      *)
(* workflow orchestrator (backend/app/services/orchestrator.py), the      *)
(* expiring analysis cache (backend/app/services/cache.py) and the        *)
(* analyze endpoint (backend/app/routers/projects.py) with the URL        *)
(* validator it calls (backend/app/services/github_validator.py).         *)
(***************************************************************************)
EXTENDS Integers, Sequences, FiniteSets, TLC

VARIABLES
    \* ---- workflow orchestrator (orchestrator.py, routers/workflows.py)
    tasks,            \* WorkflowRequest.tasks: sequence of AgentTask
    workflow_type,    \* WorkflowRequest.workflow_type
    wpc,              \* position in execute_workflow: start, running, done
    idx,              \* loop position of _execute_sequential/_execute_conditional
    task_groups,      \* _execute_parallel: the waves, as sequences of task indices
    wave,             \* _execute_parallel: index of the group being gathered
    started,          \* tasks whose invocation code has run
    inflight,         \* task index -> payload of the pending invoke_agent call
    group_results,    \* task index -> reply, for the group being gathered
    skipped,          \* tasks passed over by _execute_conditional
    results,          \* the results dict: agent_name -> reply
    execution_order,  \* insertion order of the keys of results
    invoked,          \* log of client.invoke_agent calls, in call order
    response,         \* what the /execute endpoint answered
    \* ---- expiring cache (cache.py)
    cache,            \* AnalysisCache._cache: key -> (value, timestamp)
    now,              \* time.time(), in seconds
    ticks,            \* how often the clock has advanced
    got,              \* the last cache.get call and what it returned
    written,          \* key -> the last cache.set not yet invalidated or cleared
    misses,           \* key -> 1 once a get found the entry expired, 2 after a later get
    \* ---- analyze endpoint (routers/projects.py)
    req,              \* request id -> the handler's position and locals
    sets,             \* the cache.set calls the handlers made, in order
    \* ---- agent tier (agents/src/project_intelligence_agent.py)
    ex,               \* one use of _extract_json_from_response: input and outcome
    run,              \* one run of the agent tier's analyze_project entrypoint
    \* ---- GitHub API access of the validator (github_validator.py)
    github,           \* GitHubValidator: rate-limit cache, clock, requests issued
    \* ---- agent runtime client (agent_client.py)
    invoke,           \* one call of AgentCoreClient.invoke_agent
    \* ---- dependency leveling (orchestrator.py)
    leveling          \* one call of _group_by_dependencies: the loop's locals

wfVars == <<tasks, workflow_type, wpc, idx, task_groups, wave, started, inflight,
            group_results, skipped, results, execution_order, invoked, response>>

cacheVars == <<cache, now, ticks>>

ghostVars == <<got, written, misses>>

anVars == <<req, sets>>

tierVars == <<ex, run, github, invoke, leveling>>

vars == <<wfVars, cacheVars, ghostVars, anVars, tierVars>>

----------------------------------------------------------------------------
(* Bounds of the model *)

MaxTasks == 3

MaxTicks == 2

MaxRequests == 2

----------------------------------------------------------------------------
(* Python dicts *)

EmptyDict == [k \in {} |-> k]

DictSet(d, k, v) == [x \in (DOMAIN d) \cup {k} |-> IF x = k THEN v ELSE d[x]]

Range(s) == {s[i] : i \in 1..Len(s)}

NoResponse == [pending |-> TRUE]

----------------------------------------------------------------------------
(* Agent registry and the opaque agent runtime *)

RegisteredAgents == {"project_intelligence"}

AgentNames == {"project_intelligence", "code_review"}

\* a registry that hands out an ARN for any name
get_agent_arn_any(agent_name) == [raised |-> "none", arn |-> agent_name]

\* AgentRegistry.get_agent_arn: the ARN of a registered agent, ValueError otherwise
get_agent_arn(agent_name) ==
    IF agent_name \notin RegisteredAgents
    THEN [raised |-> "UnknownAgent", arn |-> "none"]
    ELSE [raised |-> "none", arn |-> agent_name]

\* How a call of AgentCoreClient.invoke_agent can end: a parsed reply, or one of
\* the exceptions it raises (ClientError, JSONDecodeError, TimeoutError).
InvokeOutcomes == {"ok", "InvocationFailed", "InvalidResponseFormat", "Timeout"}

\* The reply of a deterministic agent: a function of the agent and its payload.
AgentReply(arn, payload) == [agent |-> arn, request |-> payload]

----------------------------------------------------------------------------
(* Expiring cache: AnalysisCache *)

cache_ttl_seconds == 3600

NoneValue == [none |-> TRUE]

DictDel(d, k) == [x \in (DOMAIN d) \ {k} |-> d[x]]

\* a get that answers None for an expired entry but leaves it in the dict
CacheGet_keep_expired(c, key, t) ==
    IF key \notin DOMAIN c THEN [value |-> NoneValue, cache |-> c]
    ELSE IF t - c[key].timestamp > cache_ttl_seconds
         THEN [value |-> NoneValue, cache |-> c]
         ELSE [value |-> c[key].value, cache |-> c]

\* AnalysisCache.get: the value returned and the dict afterwards
CacheGet(c, key, t) ==
    IF key \notin DOMAIN c THEN [value |-> NoneValue, cache |-> c]
    ELSE IF t - c[key].timestamp > cache_ttl_seconds
         THEN [value |-> NoneValue, cache |-> DictDel(c, key)]
         ELSE [value |-> c[key].value, cache |-> c]

\* a set that keeps the entry a key already has
CacheSet_keep_first(c, key, value, t) ==
    IF key \in DOMAIN c THEN c ELSE DictSet(c, key, [value |-> value, timestamp |-> t])

\* AnalysisCache.set
CacheSet(c, key, value, t) == DictSet(c, key, [value |-> value, timestamp |-> t])

\* AnalysisCache.invalidate
CacheInvalidate(c, key) == IF key \in DOMAIN c THEN DictDel(c, key) ELSE c

\* the clock advances by a second or by a whole TTL
TickSteps == {1, cache_ttl_seconds}

CacheKeys == {"k1", "k2"}

CacheValues == {[summary |-> "v1"], [summary |-> "v2"]}

NoGet == [key |-> "none", value |-> NoneValue]

CacheIdle ==
    /\ cache = EmptyDict /\ now = 0 /\ ticks = 0
    /\ got = NoGet /\ written = EmptyDict /\ misses = EmptyDict

WorkflowIdle ==
    /\ tasks = <<>> /\ workflow_type = "sequential" /\ wpc = "idle" /\ idx = 1
    /\ task_groups = <<>> /\ wave = 0 /\ started = {} /\ inflight = EmptyDict
    /\ group_results = EmptyDict /\ skipped = {} /\ results = EmptyDict
    /\ execution_order = <<>> /\ invoked = <<>> /\ response = NoResponse

AnalyzeIdle == req = EmptyDict /\ sets = <<>>

Idle == [pc |-> "idle"]

TierIdle ==
    ex = Idle /\ run = Idle /\ github = Idle /\ invoke = Idle /\ leveling = Idle

\* cache.get(key)
cache_get ==
    \E key \in CacheKeys :
        LET r == CacheGet(cache, key, now)
            expired == key \in DOMAIN cache /\ r.value = NoneValue
        IN  /\ cache' = r.cache
            /\ got' = [key |-> key, value |-> r.value]
            /\ misses' = IF expired THEN DictSet(misses, key, 1)
                         ELSE IF key \in DOMAIN misses
                              THEN DictSet(misses, key, 2)
                              ELSE misses
            /\ UNCHANGED <<now, ticks, written>>
            /\ UNCHANGED <<wfVars, anVars, tierVars>>

\* cache.set(key, value)
cache_set ==
    \E key \in CacheKeys, value \in CacheValues :
        /\ cache' = CacheSet(cache, key, value, now)
        /\ written' = DictSet(written, key, [value |-> value, at |-> now])
        /\ misses' = DictDel(misses, key)
        /\ got' = NoGet
        /\ UNCHANGED <<now, ticks>>
        /\ UNCHANGED <<wfVars, anVars, tierVars>>

\* cache.invalidate(key)
cache_invalidate ==
    \E key \in CacheKeys :
        /\ cache' = CacheInvalidate(cache, key)
        /\ written' = DictDel(written, key)
        /\ got' = NoGet
        /\ UNCHANGED <<now, ticks, misses>>
        /\ UNCHANGED <<wfVars, anVars, tierVars>>

\* cache.clear()
cache_clear ==
    /\ cache' = EmptyDict
    /\ written' = EmptyDict
    /\ got' = NoGet
    /\ UNCHANGED <<now, ticks, misses>>
    /\ UNCHANGED <<wfVars, anVars, tierVars>>

\* time passes
Tick ==
    /\ ticks < MaxTicks
    /\ \E d \in TickSteps : now' = now + d
    /\ ticks' = ticks + 1
    /\ got' = NoGet
    /\ UNCHANGED <<cache, written, misses>>
    /\ UNCHANGED <<wfVars, anVars, tierVars>>

CacheInit == WorkflowIdle /\ AnalyzeIdle /\ CacheIdle /\ TierIdle

CacheNext == cache_get \/ cache_set \/ cache_invalidate \/ cache_clear \/ Tick

SpecCache == CacheInit /\ [][CacheNext]_vars

----------------------------------------------------------------------------
(* GitHubValidator.validate_url. A URL is a string, held as its sequence of
   tokens: a scheme, host labels, "/" and the characters of the names. *)

Alnum == {"o", "r", "9"}

NameChars == Alnum \cup {".", "_", "-"}

Whitespace == {" "}

NoName == <<"None">>

NoMessage == "None"

GithubNameMaxLen == 39

RepoNameMaxLen == 100

RECURSIVE LStrip(_)
LStrip(s) == IF s # <<>> /\ Head(s) \in Whitespace THEN LStrip(Tail(s)) ELSE s

RECURSIVE RStrip(_)
RStrip(s) ==
    IF s # <<>> /\ s[Len(s)] \in Whitespace THEN RStrip(SubSeq(s, 1, Len(s) - 1)) ELSE s

\* str.strip()
Strip(s) == RStrip(LStrip(s))

\* the longest prefix of s made of the characters [a-zA-Z0-9._-]
RECURSIVE NameRun(_)
NameRun(s) ==
    IF s # <<>> /\ Head(s) \in NameChars THEN <<Head(s)>> \o NameRun(Tail(s)) ELSE <<>>

Drop(s, n) == SubSeq(s, n + 1, Len(s))

\* GITHUB_URL_PATTERN.match(url):
\* ^https?://(?:www\.)?github\.com/([a-zA-Z0-9][a-zA-Z0-9._-]*)/([a-zA-Z0-9][a-zA-Z0-9._-]*)/?$
GITHUB_URL_PATTERN(url) ==
    LET NoMatch == [matched |-> FALSE, owner |-> NoName, repo |-> NoName]
        s1 == IF url # <<>> /\ Head(url) \in {"http://", "https://"} THEN Tail(url) ELSE <<"!">>
        s2 == IF s1 # <<>> /\ Head(s1) = "www." THEN Tail(s1) ELSE s1
        s3 == IF Len(s2) >= 2 /\ s2[1] = "github.com" /\ s2[2] = "/" THEN Drop(s2, 2) ELSE <<"!">>
        owner == NameRun(s3)
        s4 == Drop(s3, Len(owner))
        s5 == IF s4 # <<>> /\ Head(s4) = "/" THEN Tail(s4) ELSE <<"!">>
        repo == NameRun(s5)
        s6 == Drop(s5, Len(repo))
    IN  IF /\ owner # <<>> /\ Head(owner) \in Alnum
           /\ repo # <<>> /\ Head(repo) \in Alnum
           /\ s6 \in {<<>>, <<"/">>}
        THEN [matched |-> TRUE, owner |-> owner, repo |-> repo]
        ELSE NoMatch

\* _is_valid_github_name without the rule on hyphens
is_valid_github_name_any_hyphen(name) ==
    /\ name # <<>> /\ Len(name) <= GithubNameMaxLen
    /\ name[1] \in Alnum
    /\ \A i \in 2..Len(name) : name[i] \in Alnum \cup {"-"}

\* _is_valid_github_name: ^[a-zA-Z0-9](?:[a-zA-Z0-9]|-(?=[a-zA-Z0-9])){0,38}$
is_valid_github_name(name) ==
    /\ name # <<>> /\ Len(name) <= GithubNameMaxLen
    /\ name[1] \in Alnum
    /\ \A i \in 2..Len(name) :
          \/ name[i] \in Alnum
          \/ name[i] = "-" /\ i < Len(name) /\ name[i + 1] \in Alnum

\* _is_valid_repo_name: ^[a-zA-Z0-9][a-zA-Z0-9._-]*$
is_valid_repo_name(name) ==
    /\ name # <<>> /\ Len(name) <= RepoNameMaxLen
    /\ name[1] \in Alnum
    /\ \A i \in 2..Len(name) : name[i] \in NameChars

ValidationResult(is_valid, owner, repo, error_message) ==
    [is_valid |-> is_valid, owner |-> owner, repo |-> repo, error_message |-> error_message]

\* GitHubValidator.validate_url
validate_url(raw) ==
    IF raw = <<>>
    THEN ValidationResult(FALSE, NoName, NoName, "URL must be a non-empty string")
    ELSE LET m == GITHUB_URL_PATTERN(Strip(raw)) IN
         IF ~m.matched
         THEN ValidationResult(FALSE, NoName, NoName, "Invalid GitHub URL format")
         ELSE IF ~is_valid_github_name(m.owner)
         THEN ValidationResult(FALSE, NoName, NoName, "Invalid GitHub username")
         ELSE IF ~is_valid_repo_name(m.repo)
         THEN ValidationResult(FALSE, NoName, NoName, "Invalid GitHub repository name")
         ELSE ValidationResult(TRUE, m.owner, m.repo, NoMessage)

MakeUrl(scheme, www, host, owner, repo, slash) ==
    <<scheme>> \o (IF www THEN <<"www.">> ELSE <<>>) \o <<host, "/">> \o owner
        \o <<"/">> \o repo \o (IF slash THEN <<"/">> ELSE <<>>)

\* the request URLs tried: one repository written plainly, with a trailing
\* slash, and with "www." over plain HTTP; and a URL whose owner name the
\* validator refuses
RequestUrls ==
    { MakeUrl("https://", FALSE, "github.com", <<"o">>, <<"r">>, FALSE),
      MakeUrl("https://", FALSE, "github.com", <<"o">>, <<"r">>, TRUE),
      MakeUrl("http://", TRUE, "github.com", <<"o">>, <<"r">>, FALSE) }
    \cup { MakeUrl("https://", FALSE, "github.com", <<"o", "-">>, <<"r">>, FALSE) }

----------------------------------------------------------------------------
(* The /api/projects/analyze endpoint *)

Requests == 1..MaxRequests

\* how check_repository_exists can end: True, False, or an exception: the rate
\* limit found in the cache or by the probe (with its reset time), the rate limit
\* told by a 403, another status, a timeout
ExistsOutcomes ==
    {"exists", "not_found", "rate_limited", "rate_limited_resets_at", "api_error",
     "timeout"}

\* str(e) of the exception check_repository_exists raised
ExistsMessage(outcome) ==
    CASE outcome = "rate_limited" -> <<"GitHub API rate limit exceeded">>
      [] outcome = "rate_limited_resets_at" ->
            <<"GitHub API rate limit exceeded", ". Resets at ", "reset_time">>
      [] outcome = "timeout" -> <<"GitHub API request timeout">>
      [] OTHER -> <<"GitHub API error: ", "500">>

\* if "rate limit" in str(e).lower()
mentions_rate_limit(message) ==
    \E i \in DOMAIN message : message[i] = "GitHub API rate limit exceeded"

\* replies of the project intelligence agent: an analysis, or a failure report
AgentReplies ==
    { [status |-> "completed", analysis |-> [summary |-> "summary"]],
      [status |-> "failed", analysis |-> EmptyDict] }

\* ErrorHandler.handle_*: the HTTPException raised
ErrorResponse(request_id, status_code, code) ==
    [success |-> FALSE, status_code |-> status_code, code |-> code, request_id |-> request_id]

\* ErrorHandler.handle_rate_limit_error(request_id, reset_time)
handle_rate_limit_error(request_id, reset_time) ==
    [success |-> FALSE, status_code |-> 429, code |-> "RATE_LIMITED",
     request_id |-> request_id,
     details |-> IF reset_time # NoneValue THEN [reset_time |-> reset_time] ELSE EmptyDict,
     headers |-> IF reset_time = NoneValue THEN [retry_after |-> "3600"] ELSE EmptyDict]

\* analyze_project: the HTTPException when the repository is not there or the
\* check failed
exists_error_response(r, outcome) ==
    CASE outcome = "not_found" -> ErrorResponse(r, 404, "REPOSITORY_NOT_FOUND")
      [] mentions_rate_limit(ExistsMessage(outcome)) -> handle_rate_limit_error(r, NoneValue)
      [] OTHER -> ErrorResponse(r, 500, "INTERNAL_ERROR")

\* a mapping that reports the timeout as any other failure of the agent
agent_error_response_unavailable(r, e) == ErrorResponse(r, 503, "AGENT_INVOCATION_FAILED")

\* analyze_project: except TimeoutError / except Exception around invoke_agent
agent_error_response(r, e) ==
    IF e = "Timeout"
    THEN ErrorResponse(r, 504, "AGENT_TIMEOUT")
    ELSE ErrorResponse(r, 503, "AGENT_INVOCATION_FAILED")

\* AnalysisResponse(success=True, data=..., request_id=...)
AnalysisResponse(request_id, data) ==
    [success |-> TRUE, data |-> data, request_id |-> request_id]

\* ProjectAnalysis built from the agent's reply: result.get("analysis", {}) and
\* analysis_data.get("summary", "")
ProjectAnalysis(request_id, result) ==
    [summary |-> IF "summary" \in DOMAIN result.analysis THEN result.analysis.summary ELSE "",
     metadata |-> [request_id |-> request_id, agent_name |-> "project_intelligence"]]

\* a key that names the repository rather than the request's URL
cache_key_normalized(repo_url) ==
    LET v == validate_url(repo_url) IN
    MakeUrl("https://", FALSE, "github.com", v.owner, v.repo, FALSE)

\* the key of cache.get(repo_url) and cache.set(repo_url, analysis)
cache_key(repo_url) == repo_url

\* a lookup whose result is never taken for a hit
cache_hit_never(cached_result) == FALSE

\* if cached_result:
cache_hit(cached_result) == cached_result # NoneValue

Finish(r, resp) == [req EXCEPT ![r].pc = "done", ![r].response = resp]

IsSameUrl(u1, u2) == u1 = u2

IsSameRepository(u1, u2) ==
    /\ validate_url(u1).is_valid /\ validate_url(u2).is_valid
    /\ validate_url(u1).owner = validate_url(u2).owner
    /\ validate_url(u1).repo = validate_url(u2).repo

\* some request for the same URL (or, by_repository, for the same repository)
\* cached its analysis at most TTL seconds ago
StoredBy(url, by_repository) ==
    \E p \in 1..Len(sets) :
        /\ IF by_repository
           THEN IsSameRepository(req[sets[p].req].repo_url, url)
           ELSE IsSameUrl(req[sets[p].req].repo_url, url)
        /\ now - sets[p].at <= cache_ttl_seconds

\* analyze_project up to the await of check_repository_exists
analyze_project_validate(r) ==
    /\ r \notin DOMAIN req /\ \A earlier \in 1..(r - 1) : earlier \in DOMAIN req
    /\ \E url \in RequestUrls :
         LET validation_result == validate_url(url)
             fresh == [pc |-> "checking", repo_url |-> url, cached_result |-> NoneValue,
                       response |-> NoResponse, calls |-> <<"validate_url">>,
                       stored_url |-> FALSE, stored_repo |-> FALSE,
                       exists |-> "none", agent_error |-> "none", result |-> NoneValue,
                       evicted |-> FALSE]
         IN  IF ~validation_result.is_valid
             THEN req' = DictSet(req, r, [fresh EXCEPT !.pc = "done",
                                 !.response = ErrorResponse(r, 400, "INVALID_URL")])
             ELSE req' = DictSet(req, r, [fresh EXCEPT
                                 !.calls = @ \o <<"check_repository_exists">>])
    /\ UNCHANGED <<sets, cacheVars, ghostVars, wfVars, tierVars>>

\* analyze_project from the return of check_repository_exists to the await of
\* client.invoke_agent: the cache lookup
analyze_project_lookup(r) ==
    /\ r \in DOMAIN req /\ req[r].pc = "checking"
    /\ \E outcome \in ExistsOutcomes :
         IF outcome # "exists"
         THEN /\ req' = [Finish(r, exists_error_response(r, outcome))
                            EXCEPT ![r].exists = outcome]
              /\ UNCHANGED cache
         ELSE LET g == CacheGet(cache, cache_key(req[r].repo_url), now)
                  looked == [req EXCEPT ![r].cached_result = g.value,
                                        ![r].exists = outcome,
                                        ![r].evicted = (g.cache # cache),
                                        ![r].stored_url = StoredBy(req[r].repo_url, FALSE),
                                        ![r].stored_repo = StoredBy(req[r].repo_url, TRUE)]
              IN  /\ cache' = g.cache
                  /\ IF cache_hit(g.value)
                     THEN req' = [looked EXCEPT
                                    ![r].pc = "done",
                                    ![r].response = AnalysisResponse(r, g.value),
                                    ![r].calls = @ \o <<"cache.get">>]
                     ELSE req' = [looked EXCEPT
                                    ![r].pc = "invoking",
                                    ![r].calls = @ \o <<"cache.get", "invoke_agent">>]
    /\ UNCHANGED <<sets, now, ticks, ghostVars, wfVars, tierVars>>

\* a handler that caches an empty analysis when the agent call fails
analyze_project_store_on_failure(r) ==
    /\ r \in DOMAIN req /\ req[r].pc = "invoking"
    /\ \/ \E e \in InvokeOutcomes \ {"ok"} :
            /\ req' = [Finish(r, agent_error_response(r, e)) EXCEPT ![r].agent_error = e]
            /\ cache' = CacheSet(cache, cache_key(req[r].repo_url),
                                 ProjectAnalysis(r, [analysis |-> EmptyDict]), now)
            /\ sets' = Append(sets, [req |-> r, at |-> now])
       \/ \E result \in AgentReplies :
            LET analysis == ProjectAnalysis(r, result) IN
            /\ cache' = CacheSet(cache, cache_key(req[r].repo_url), analysis, now)
            /\ sets' = Append(sets, [req |-> r, at |-> now])
            /\ req' = [Finish(r, AnalysisResponse(r, analysis))
                          EXCEPT ![r].calls = @ \o <<"cache.set">>,
                                 ![r].result = result]
    /\ UNCHANGED <<now, ticks, ghostVars, wfVars, tierVars>>

\* analyze_project from the return of client.invoke_agent: build, cache, answer
analyze_project_store(r) ==
    /\ r \in DOMAIN req /\ req[r].pc = "invoking"
    /\ \/ /\ \E e \in InvokeOutcomes \ {"ok"} :
               req' = [Finish(r, agent_error_response(r, e)) EXCEPT ![r].agent_error = e]
          /\ UNCHANGED <<cache, sets>>
       \/ \E result \in AgentReplies :
            LET analysis == ProjectAnalysis(r, result) IN
            /\ cache' = CacheSet(cache, cache_key(req[r].repo_url), analysis, now)
            /\ sets' = Append(sets, [req |-> r, at |-> now])
            /\ req' = [Finish(r, AnalysisResponse(r, analysis))
                          EXCEPT ![r].calls = @ \o <<"cache.set">>,
                                 ![r].result = result]
    /\ UNCHANGED <<now, ticks, ghostVars, wfVars, tierVars>>

\* time passes between the handlers' steps; the clock is read only against the
\* timestamps of cache entries, so time is counted from the first entry on
AnalyzeTick ==
    /\ cache # EmptyDict
    /\ ticks < MaxTicks
    /\ \E d \in TickSteps : now' = now + d
    /\ ticks' = ticks + 1
    /\ UNCHANGED <<cache, ghostVars, anVars, wfVars, tierVars>>

AnalyzeInit == WorkflowIdle /\ CacheIdle /\ AnalyzeIdle /\ TierIdle

AnalyzeNext ==
    \/ \E r \in Requests : analyze_project_validate(r)
    \/ \E r \in Requests : analyze_project_lookup(r)
    \/ \E r \in Requests : analyze_project_store(r)
    \/ AnalyzeTick

SpecAnalyze == AnalyzeInit /\ [][AnalyzeNext]_vars

----------------------------------------------------------------------------
(* Workflow requests *)

PresetValue == [agent |-> "caller", request |-> EmptyDict]

ResultKey(dep) == dep \o "_result"

InputDataChoices ==
    { EmptyDict,
      DictSet(DictSet(EmptyDict, "repository_url", PresetValue),
              "project_intelligence_result", PresetValue) }

DependsOnChoices ==
    { <<>>, <<"project_intelligence">>, <<"code_review">>,
      <<"project_intelligence", "code_review">> }

AgentTask == [agent_name : AgentNames, input_data : InputDataChoices,
              depends_on : DependsOnChoices]

TaskLists == UNION {[1..n -> AgentTask] : n \in 0..MaxTasks}

WorkflowTypes == {"sequential", "parallel", "conditional"}

----------------------------------------------------------------------------
(* AgentOrchestrator helpers *)

RECURSIVE resolve_loop(_, _, _)
resolve_loop(deps, res, input_data) ==
    IF deps = <<>> THEN input_data
    ELSE LET dep == Head(deps) IN
         resolve_loop(Tail(deps), res,
                      IF dep \in DOMAIN res
                      THEN DictSet(input_data, ResultKey(dep), res[dep])
                      ELSE input_data)

\* a resolver that merges every result, whether or not the task depends on it
resolve_dependencies_all_results(task, res) ==
    resolve_loop(task.depends_on, res,
                 [k \in (DOMAIN task.input_data) \cup {ResultKey(n) : n \in DOMAIN res} |->
                     IF \E n \in DOMAIN res : k = ResultKey(n)
                     THEN res[CHOOSE n \in DOMAIN res : k = ResultKey(n)]
                     ELSE task.input_data[k]])

\* _resolve_dependencies: a copy of input_data plus "<dep>_result" for each
\* dependency found in results
resolve_dependencies(task, res) == resolve_loop(task.depends_on, res, task.input_data)

\* a dependency check satisfied by any one dependency
check_dependencies_any(task, res) ==
    \/ task.depends_on = <<>>
    \/ \E k \in 1..Len(task.depends_on) : task.depends_on[k] \in DOMAIN res

\* a dependency check that never skips
check_dependencies_always(task, res) == TRUE

\* _check_dependencies
check_dependencies(task, res) ==
    \A k \in 1..Len(task.depends_on) : task.depends_on[k] \in DOMAIN res

RECURSIVE group_loop(_, _, _, _)
group_loop(ts, remaining, completed, groups) ==
    IF remaining = <<>> THEN [raised |-> "none", groups |-> groups]
    ELSE LET Ready(i) == \A k \in 1..Len(ts[i].depends_on) :
                             ts[i].depends_on[k] \in completed
             current_group == SelectSeq(remaining, Ready)
             NotInGroup(i) == i \notin Range(current_group)
         IN  IF current_group = <<>>
             THEN [raised |-> "CircularDependency", groups |-> <<>>]
             ELSE group_loop(ts, SelectSeq(remaining, NotInGroup),
                             completed \cup {ts[i].agent_name : i \in Range(current_group)},
                             Append(groups, current_group))

\* a grouping that puts every task in one wave
group_by_dependencies_one_wave(ts) ==
    [raised |-> "none",
     groups |-> IF ts = <<>> THEN <<>> ELSE <<[i \in 1..Len(ts) |-> i]>>]

\* a grouping that schedules the tasks it cannot level in a last wave
group_by_dependencies_no_raise(ts) ==
    LET g == group_loop(ts, [i \in 1..Len(ts) |-> i], {}, <<>>) IN
    IF g.raised = "none" THEN g
    ELSE [raised |-> "none", groups |-> <<[i \in 1..Len(ts) |-> i]>>]

\* _group_by_dependencies: the waves of task indices, or ValueError
group_by_dependencies(ts) == group_loop(ts, [i \in 1..Len(ts) |-> i], {}, <<>>)

\* results[name] = reply, with the dict's insertion order
StoreOrder(order, name) == IF name \in Range(order) THEN order ELSE Append(order, name)

----------------------------------------------------------------------------
(* The /api/workflows/execute endpoint *)

\* an answer that leaves the results out
Return_no_results(res, order) ==
    /\ wpc' = "done"
    /\ response' = [success |-> TRUE, results |-> EmptyDict, execution_order |-> order]

\* execute_workflow returned: WorkflowResponse(success=True, ...)
Return(res, order) ==
    /\ wpc' = "done"
    /\ response' = [success |-> TRUE, results |-> res, execution_order |-> order]

\* an error answer that still carries the results gathered so far
Raise_partial(kind) ==
    /\ wpc' = "done"
    /\ response' = [success |-> FALSE, status_code |-> 500, detail |-> kind,
                    results |-> results]

\* an exception left execute_workflow: HTTPException(500)
Raise(kind) ==
    /\ wpc' = "done"
    /\ response' = [success |-> FALSE, status_code |-> 500, detail |-> kind]

\* execute_workflow: dispatch on workflow_type
execute_workflow ==
    /\ wpc = "start"
    /\ IF workflow_type = "parallel"
       THEN LET g == group_by_dependencies(tasks) IN
            /\ task_groups' = g.groups
            /\ IF g.raised # "none" THEN Raise(g.raised) /\ wave' = wave
               ELSE IF g.groups = <<>> THEN Return(results, execution_order) /\ wave' = 1
               ELSE wpc' = "running" /\ response' = response /\ wave' = 1
       ELSE /\ UNCHANGED <<task_groups, wave>>
            /\ IF tasks = <<>> THEN Return(results, execution_order)
               ELSE wpc' = "running" /\ response' = response
    /\ UNCHANGED <<tasks, workflow_type, idx, started, inflight, group_results,
                   skipped, results, execution_order, invoked>>
    /\ UNCHANGED <<cacheVars, ghostVars, anVars, tierVars>>

\* the body of the for loop up to the await of client.invoke_agent
InvokeTask(i) ==
    LET task == tasks[i]
        input_data == resolve_dependencies(task, results)
        agent == get_agent_arn(task.agent_name)
    IN  /\ started' = started \cup {i}
        /\ IF agent.raised # "none"
           THEN /\ Raise(agent.raised)
                /\ UNCHANGED <<invoked, inflight>>
           ELSE /\ invoked' = Append(invoked, [task |-> i, payload |-> input_data])
                /\ inflight' = DictSet(inflight, i, input_data)
                /\ UNCHANGED <<wpc, response>>

\* the await returned or raised, and the loop stored the result
ReplyTask(i, outcome) ==
    LET name == tasks[i].agent_name
        reply == AgentReply(get_agent_arn(name).arn, inflight[i])
    IN  /\ inflight' = [j \in (DOMAIN inflight) \ {i} |-> inflight[j]]
        /\ IF outcome # "ok"
           THEN /\ Raise(outcome)
                /\ UNCHANGED <<idx, results, execution_order>>
           ELSE /\ results' = DictSet(results, name, reply)
                /\ execution_order' = StoreOrder(execution_order, name)
                /\ idx' = idx + 1
                /\ IF idx = Len(tasks) THEN Return(results', execution_order')
                   ELSE UNCHANGED <<wpc, response>>

\* _execute_sequential: resolve, look up and invoke the next task
execute_sequential_invoke ==
    /\ wpc = "running" /\ workflow_type = "sequential"
    /\ idx <= Len(tasks) /\ idx \notin started
    /\ InvokeTask(idx)
    /\ UNCHANGED <<tasks, workflow_type, idx, task_groups, wave, group_results,
                   skipped, results, execution_order>>
    /\ UNCHANGED <<cacheVars, ghostVars, anVars, tierVars>>

\* _execute_sequential: the invocation returned or raised
execute_sequential_reply ==
    /\ wpc = "running" /\ workflow_type = "sequential"
    /\ idx \in DOMAIN inflight
    /\ \E outcome \in InvokeOutcomes : ReplyTask(idx, outcome)
    /\ UNCHANGED <<tasks, workflow_type, task_groups, wave, started, group_results,
                   skipped, invoked>>
    /\ UNCHANGED <<cacheVars, ghostVars, anVars, tierVars>>

\* _execute_conditional: a task whose dependencies are not all in results
execute_conditional_skip ==
    /\ wpc = "running" /\ workflow_type = "conditional"
    /\ idx <= Len(tasks) /\ idx \notin started
    /\ ~check_dependencies(tasks[idx], results)
    /\ skipped' = skipped \cup {idx}
    /\ idx' = idx + 1
    /\ IF idx = Len(tasks) THEN Return(results, execution_order)
       ELSE UNCHANGED <<wpc, response>>
    /\ UNCHANGED <<tasks, workflow_type, task_groups, wave, started, inflight,
                   group_results, results, execution_order, invoked>>
    /\ UNCHANGED <<cacheVars, ghostVars, anVars, tierVars>>

\* _execute_conditional: resolve, look up and invoke a task whose dependencies are met
execute_conditional_invoke ==
    /\ wpc = "running" /\ workflow_type = "conditional"
    /\ idx <= Len(tasks) /\ idx \notin started
    /\ check_dependencies(tasks[idx], results)
    /\ InvokeTask(idx)
    /\ UNCHANGED <<tasks, workflow_type, idx, task_groups, wave, group_results,
                   skipped, results, execution_order>>
    /\ UNCHANGED <<cacheVars, ghostVars, anVars, tierVars>>

\* _execute_conditional: the invocation returned or raised
execute_conditional_reply ==
    /\ wpc = "running" /\ workflow_type = "conditional"
    /\ idx \in DOMAIN inflight
    /\ \E outcome \in InvokeOutcomes : ReplyTask(idx, outcome)
    /\ UNCHANGED <<tasks, workflow_type, task_groups, wave, started, group_results,
                   skipped, invoked>>
    /\ UNCHANGED <<cacheVars, ghostVars, anVars, tierVars>>

\* the coroutines asyncio.gather runs for the current group; gather cancels none
\* of them when one raises
GatherLive ==
    /\ workflow_type = "parallel" /\ wpc # "start"
    /\ wave \in 1..Len(task_groups)

\* gather propagates the first exception raised by a sibling
GatherRaise(kind) ==
    IF wpc = "running" THEN Raise(kind) ELSE UNCHANGED <<wpc, response>>

\* _execute_task: resolve, look up and invoke, up to the await
execute_task_invoke ==
    /\ GatherLive
    /\ \E i \in Range(task_groups[wave]) \ started :
         LET task == tasks[i]
             input_data == resolve_dependencies(task, results)
             agent == get_agent_arn(task.agent_name)
         IN  /\ started' = started \cup {i}
             /\ IF agent.raised # "none"
                THEN /\ GatherRaise(agent.raised)
                     /\ UNCHANGED <<invoked, inflight>>
                ELSE /\ invoked' = Append(invoked, [task |-> i, payload |-> input_data])
                     /\ inflight' = DictSet(inflight, i, input_data)
                     /\ UNCHANGED <<wpc, response>>
    /\ UNCHANGED <<tasks, workflow_type, idx, task_groups, wave, group_results,
                   skipped, results, execution_order>>
    /\ UNCHANGED <<cacheVars, ghostVars, anVars, tierVars>>

\* an _execute_task that stores its reply in results as soon as it has it
execute_task_reply_shared ==
    /\ GatherLive
    /\ \E i \in DOMAIN inflight, outcome \in InvokeOutcomes :
         /\ inflight' = [j \in (DOMAIN inflight) \ {i} |-> inflight[j]]
         /\ IF outcome # "ok"
            THEN GatherRaise(outcome) /\ UNCHANGED <<group_results, results>>
            ELSE LET reply == AgentReply(get_agent_arn(tasks[i].agent_name).arn, inflight[i])
                 IN  /\ group_results' = DictSet(group_results, i, reply)
                     /\ results' = DictSet(results, tasks[i].agent_name, reply)
                     /\ UNCHANGED <<wpc, response>>
    /\ UNCHANGED <<tasks, workflow_type, idx, task_groups, wave, started, skipped,
                   execution_order, invoked>>
    /\ UNCHANGED <<cacheVars, ghostVars, anVars, tierVars>>

\* _execute_task: the invocation returned or raised
execute_task_reply ==
    /\ GatherLive
    /\ \E i \in DOMAIN inflight, outcome \in InvokeOutcomes :
         /\ inflight' = [j \in (DOMAIN inflight) \ {i} |-> inflight[j]]
         /\ IF outcome # "ok"
            THEN GatherRaise(outcome) /\ UNCHANGED group_results
            ELSE /\ group_results' =
                        DictSet(group_results, i,
                                AgentReply(get_agent_arn(tasks[i].agent_name).arn, inflight[i]))
                 /\ UNCHANGED <<wpc, response>>
    /\ UNCHANGED <<tasks, workflow_type, idx, task_groups, wave, started, skipped,
                   results, execution_order, invoked>>
    /\ UNCHANGED <<cacheVars, ghostVars, anVars, tierVars>>

RECURSIVE merge_loop(_, _, _)
merge_loop(group, replies, acc) ==
    IF group = <<>> THEN acc
    ELSE LET name == tasks[Head(group)].agent_name IN
         merge_loop(Tail(group), replies,
                    [res |-> DictSet(acc.res, name, replies[Head(group)]),
                     order |-> StoreOrder(acc.order, name)])

\* _execute_parallel: gather returned; merge the group's results in group order
execute_parallel_merge ==
    /\ GatherLive /\ wpc = "running"
    /\ Range(task_groups[wave]) \subseteq DOMAIN group_results
    /\ LET merged == merge_loop(task_groups[wave], group_results,
                                [res |-> results, order |-> execution_order])
       IN  /\ results' = merged.res
           /\ execution_order' = merged.order
           /\ IF wave = Len(task_groups) THEN Return(merged.res, merged.order)
              ELSE UNCHANGED <<wpc, response>>
    /\ wave' = wave + 1
    /\ group_results' = EmptyDict
    /\ UNCHANGED <<tasks, workflow_type, idx, task_groups, started, inflight,
                   skipped, invoked>>
    /\ UNCHANGED <<cacheVars, ghostVars, anVars, tierVars>>

WorkflowInit ==
    /\ CacheIdle /\ AnalyzeIdle /\ TierIdle
    /\ tasks \in TaskLists
    /\ workflow_type \in WorkflowTypes
    /\ wpc = "start"
    /\ idx = 1
    /\ task_groups = <<>>
    /\ wave = 0
    /\ started = {}
    /\ inflight = EmptyDict
    /\ group_results = EmptyDict
    /\ skipped = {}
    /\ results = EmptyDict
    /\ execution_order = <<>>
    /\ invoked = <<>>
    /\ response = NoResponse

WorkflowNext ==
    \/ execute_workflow
    \/ execute_sequential_invoke
    \/ execute_sequential_reply
    \/ execute_conditional_skip
    \/ execute_conditional_invoke
    \/ execute_conditional_reply
    \/ execute_task_invoke
    \/ execute_task_reply
    \/ execute_parallel_merge

SpecWorkflow == WorkflowInit /\ [][WorkflowNext]_vars

----------------------------------------------------------------------------
(* Vocabulary of the workflow properties *)

TaskIds == 1..Len(tasks)

NameOf(i) == tasks[i].agent_name

DepsOf(i) == Range(tasks[i].depends_on)

LogPositions == 1..Len(invoked)

Failed == wpc = "done" /\ response.success = FALSE

Succeeded == wpc = "done" /\ response.success = TRUE

\* Dependencies are on agent names. The names in S depend on each other in a
\* cycle when every task named in S waits for a name in S (for two names A and
\* B: every task named A depends on B and every task named B depends on A).
HasDependencyCycle ==
    \E S \in (SUBSET {NameOf(i) : i \in TaskIds}) \ {{}} :
        \A i \in TaskIds : NameOf(i) \in S => DepsOf(i) \cap S # {}

CircularDependencyError ==
    Failed /\ response.detail = "CircularDependency"

\* In the sequential and conditional loops every call logged before position p
\* has returned a reply, stored under its agent name.
CompletedBefore(p, d) == \E q \in 1..(p - 1) : NameOf(invoked[q].task) = d

LastBefore(p, d) ==
    CHOOSE q \in 1..(p - 1) :
        /\ NameOf(invoked[q].task) = d
        /\ \A q2 \in (q + 1)..(p - 1) : NameOf(invoked[q2].task) # d

ReplyBefore(p, d) == AgentReply(d, invoked[LastBefore(p, d)].payload)

\* input_data plus "<dep>_result" for every completed dependency, nothing else
ExpectedPayload(p) ==
    LET i == invoked[p].task
        done == {d \in DepsOf(i) : CompletedBefore(p, d)}
    IN  [k \in (DOMAIN tasks[i].input_data) \cup {ResultKey(d) : d \in done} |->
            IF \E d \in done : k = ResultKey(d)
            THEN ReplyBefore(p, CHOOSE d \in done : k = ResultKey(d))
            ELSE tasks[i].input_data[k]]

----------------------------------------------------------------------------
(* C1 *)

----------------------------------------------------------------------------
(* C2 *)

GroupMembers(n) == Range(task_groups[n])

NamesBefore(n) == {NameOf(i) : i \in UNION {GroupMembers(m) : m \in 1..(n - 1)}}

Eligible(i, n) == DepsOf(i) \subseteq NamesBefore(n)

WaveOf(i) == CHOOSE n \in 1..Len(task_groups) : i \in GroupMembers(n)

\* C2: in parallel mode a task is in wave N iff N is the first wave by which all
\* of its dependencies have completed in earlier waves, and the waves run in
\* increasing order.
C2_Waves ==
    (workflow_type = "parallel" /\ task_groups # <<>>) =>
        /\ \A i \in TaskIds, n \in 1..Len(task_groups) :
              i \in GroupMembers(n) <=>
                  (Eligible(i, n) /\ \A m \in 1..(n - 1) : ~Eligible(i, m))
        /\ \A i \in started : WaveOf(i) <= wave
        /\ \A p, q \in LogPositions :
              p < q => WaveOf(invoked[p].task) <= WaveOf(invoked[q].task)

C2_Witness ==
    /\ workflow_type = "parallel"
    /\ Len(task_groups) >= 2 /\ wave = 2
    /\ \E p, q \in LogPositions :
          WaveOf(invoked[p].task) = 1 /\ WaveOf(invoked[q].task) = 2
    /\ \E n \in 1..Len(task_groups) : Cardinality(GroupMembers(n)) >= 2

----------------------------------------------------------------------------
(* C3 *)

\* C3: in sequential mode the tasks are invoked one at a time in listed order,
\* each with its input_data plus "<dep>_result" for every dependency that has
\* completed, and nothing else.
C3_SequentialInputs ==
    workflow_type = "sequential" =>
        /\ \A p \in LogPositions :
              /\ invoked[p].task = p
              /\ invoked[p].payload = ExpectedPayload(p)
        /\ DOMAIN inflight \subseteq {Len(invoked)}
        /\ \A n \in DOMAIN results : \E p \in LogPositions : NameOf(p) = n

C3_Witness ==
    /\ workflow_type = "sequential" /\ Succeeded
    /\ Len(invoked) = 3
    /\ tasks[3].depends_on = <<"project_intelligence", "code_review">>
    /\ tasks[3].input_data # EmptyDict
    /\ tasks[2].depends_on = <<>>
    /\ "project_intelligence_result" \in DOMAIN invoked[3].payload
    /\ "code_review_result" \notin DOMAIN invoked[3].payload

----------------------------------------------------------------------------
(* C4 *)

\* the payload of the call logged at p shows the latest reply of agent d
Visible(p, d) ==
    /\ ResultKey(d) \in DOMAIN invoked[p].payload
    /\ invoked[p].payload[ResultKey(d)].agent = d

\* C4 as stated: in a sequential or conditional workflow every invoked task's
\* input contains "<d>_result" for every d it depends on.
C4_AllDependenciesVisible ==
    workflow_type \in {"sequential", "conditional"} =>
        \A p \in LogPositions : \A d \in DepsOf(invoked[p].task) : Visible(p, d)

\* C4 amended: in a conditional workflow every invoked task's input contains
\* "<d>_result" for every d it depends on; in a sequential workflow it contains
\* "<d>_result" for exactly those d that completed before the task was invoked.
C4_CompletedDependenciesVisible ==
    workflow_type \in {"sequential", "conditional"} =>
        \A p \in LogPositions : \A d \in DepsOf(invoked[p].task) :
            /\ CompletedBefore(p, d) =>
                  /\ Visible(p, d)
                  /\ invoked[p].payload[ResultKey(d)] = ReplyBefore(p, d)
            /\ ~CompletedBefore(p, d) => ~Visible(p, d)
            /\ workflow_type = "conditional" => CompletedBefore(p, d)

C4_Witness ==
    /\ workflow_type = "sequential"
    /\ \E p \in LogPositions :
          /\ tasks[invoked[p].task].depends_on = <<"project_intelligence", "code_review">>
          /\ Visible(p, "project_intelligence")
          /\ ~Visible(p, "code_review")

----------------------------------------------------------------------------
(* C5 *)

\* the tasks the conditional loop has passed
Reached == {i \in TaskIds : i < idx} \cup started \cup skipped

\* agent d had been invoked, and had replied, when the loop reached task i
MetAt(i, d) == \E j \in started : j < i /\ NameOf(j) = d /\ j \notin DOMAIN inflight

----------------------------------------------------------------------------
(* C6 *)

InvocationErrors == InvokeOutcomes \ {"ok"}

\* C6: in every mode a task's invocation failure aborts the workflow: the answer
\* is an error without a results mapping, it stays the answer, and afterwards no
\* task is invoked that had not been started (in parallel mode: no task of a
\* later wave).
C6_FailureAborts ==
    /\ [](Failed => DOMAIN response = {"success", "status_code", "detail"})
    /\ [][Failed =>
            /\ response' = response /\ wpc' = wpc
            /\ results' = results
            /\ workflow_type # "parallel" => (invoked' = invoked /\ started' = started)
            /\ workflow_type = "parallel" =>
                  /\ wave' = wave
                  /\ \A i \in started' \ started : WaveOf(i) = wave]_vars

C6_Witness ==
    /\ workflow_type = "parallel" /\ Failed
    /\ response.detail \in InvocationErrors
    /\ Len(task_groups) > wave
    /\ GroupMembers(wave) \subseteq started
    /\ DOMAIN inflight # {}

----------------------------------------------------------------------------
(* C7 *)

Unregistered == {i \in TaskIds : NameOf(i) \notin RegisteredAgents}

\* C7 as stated, in its weakest reading: a workflow that references an
\* unregistered agent name never completes successfully, whatever the mode.
C7_UnregisteredAlwaysFails ==
    (Unregistered # {} /\ wpc = "done") => Failed

\* C7 amended: get_agent_arn raises for every name not in the registry, so the
\* workflow fails as soon as a task with an unregistered name is reached for
\* invocation, with UnknownAgent (in parallel mode unless a sibling of its wave
\* raised first); a task the conditional mode skips is never looked up, and only
\* then can a workflow naming an unregistered agent succeed.
C7_ReachedUnregisteredFails ==
    /\ \A i \in Unregistered \cap started :
          /\ Failed
          /\ \A p \in LogPositions : invoked[p].task # i
          /\ workflow_type # "parallel" => response.detail = "UnknownAgent"
          /\ workflow_type = "parallel" =>
                response.detail \in {"UnknownAgent"} \cup InvocationErrors
    /\ Succeeded =>
          /\ Unregistered \subseteq skipped
          /\ Unregistered # {} => workflow_type = "conditional"

C7_Witness ==
    /\ Failed /\ response.detail = "UnknownAgent"
    /\ invoked # <<>>
    /\ workflow_type = "conditional"
    /\ skipped \cap Unregistered # {}

----------------------------------------------------------------------------
(* C8 *)

\* C8: a get of a key set at most TTL seconds ago returns the value set; a get
\* more than TTL seconds after the set returns None and removes the entry, and
\* every later get returns None, the entry staying out of the cache, until the
\* key is set again.
C8_CacheExpiry ==
    /\ got # NoGet =>
          IF got.key \in DOMAIN written
          THEN IF now - written[got.key].at > cache_ttl_seconds
               THEN got.value = NoneValue /\ got.key \notin DOMAIN cache
               ELSE got.value = written[got.key].value
          ELSE got.value = NoneValue
    /\ \A k \in DOMAIN misses :
          /\ k \notin DOMAIN cache
          /\ got.key = k => got.value = NoneValue

C8_Witness ==
    /\ got.key \in DOMAIN written
    /\ got.key \in DOMAIN misses /\ misses[got.key] = 2
    /\ got.value = NoneValue
    /\ \E k \in DOMAIN cache : k # got.key

----------------------------------------------------------------------------
(* C9 *)

AnalyzeOrder ==
    <<"validate_url", "check_repository_exists", "cache.get", "invoke_agent", "cache.set">>

IsPrefix(s, t) == Len(s) <= Len(t) /\ s = SubSeq(t, 1, Len(s))

\* C9: analyze validates the URL, then checks the repository, then looks up the
\* cache, and only on a miss invokes the agent and then caches the result; on a
\* hit it returns the cached value without invoking the agent.
C9_AnalyzeOrder ==
    \A r \in DOMAIN req :
        LET calls == req[r].calls IN
        /\ IsPrefix(calls, AnalyzeOrder)
        /\ Len(calls) >= 4 => req[r].cached_result = NoneValue
        /\ req[r].pc = "invoking" => Len(calls) = 4
        /\ req[r].cached_result # NoneValue =>
              /\ req[r].pc = "done" /\ Len(calls) = 3
              /\ req[r].response = AnalysisResponse(r, req[r].cached_result)
        /\ (req[r].pc = "done" /\ req[r].response.success
                /\ req[r].cached_result = NoneValue) =>
              /\ calls = AnalyzeOrder
              /\ req[r].response.data.metadata.request_id = r

C9_Witness ==
    \E r1, r2 \in DOMAIN req :
        /\ req[r1].calls = AnalyzeOrder /\ req[r1].response.success
        /\ req[r2].pc = "done" /\ req[r2].cached_result # NoneValue
        /\ Len(req[r2].calls) = 3

----------------------------------------------------------------------------
(* C10 *)

HasLookedUp(r) == Len(req[r].calls) >= 3

\* C10 as stated: request URLs that validate to the same owner and repository
\* address the same cache entry, so after one is analyzed the other is a hit.
C10_SameRepositoryHits ==
    \A r \in DOMAIN req :
        (HasLookedUp(r) /\ req[r].stored_repo) => req[r].cached_result # NoneValue

\* C10 amended: the cache is keyed by the request's URL string as received: a
\* lookup is a hit iff a request with the identical URL string cached its
\* analysis at most TTL seconds earlier, and every entry is stored under the URL
\* of the request that built it; URLs of one repository that differ in scheme,
\* "www." or trailing slash have separate entries.
C10_KeyedByRequestUrl ==
    /\ \A r \in DOMAIN req :
          HasLookedUp(r) => (req[r].cached_result # NoneValue <=> req[r].stored_url)
    /\ \A k \in DOMAIN cache :
          /\ cache[k].value.metadata.request_id \in DOMAIN req
          /\ req[cache[k].value.metadata.request_id].repo_url = k

C10_Witness ==
    /\ \E r \in DOMAIN req :
          /\ HasLookedUp(r)
          /\ req[r].stored_repo /\ ~req[r].stored_url
          /\ req[r].cached_result = NoneValue
          /\ req[r].pc = "done" /\ req[r].response.success
    /\ Cardinality(DOMAIN cache) = 2
    /\ \A k \in DOMAIN cache : now - cache[k].timestamp <= cache_ttl_seconds

----------------------------------------------------------------------------
(* C11 *)

SetsFor(k) == {p \in 1..Len(sets) : req[sets[p].req].repo_url = k}

LastSetFor(k) == CHOOSE p \in SetsFor(k) : \A q \in SetsFor(k) : q <= p

----------------------------------------------------------------------------
(* Agent tier: the reply of the language model and the JSON in it *)

\* A str is held as its sequence of tokens: a punctuation character, a blank, a
\* word of prose, a literal of JSON text, or a markdown fence. No literal holds
\* an opening brace. Python values are records: a dict is [obj |-> ...], a list
\* [arr |-> ...], a str [str |-> its tokens], a number [num |-> ...], and None
\* is [null |-> TRUE].

MaxTextLen == 5

\* concurrent calls of check_repository_exists
MaxChecks == 2

\* the markdown fence of three backquotes, written <fence>: the opening of a
\* json block, which begins with a fence, and the bare fence
FenceOpen == "<fence>json"

FenceClose == "<fence>"

JsonWhitespace == {" ", "\n"}

\* string literals of JSON text, as written
StringLiterals ==
    {"\"k\"", "\"}\"", "\"summary\"", "\"tech_stack\"", "\"key_features\"", "\"tags\"",
     "\"metadata\"", "\"confidence_score\"", "\"content\"", "\"text\""}

\* the characters between the quotes of a string literal
StringContent(tok) ==
    CASE tok = "\"k\"" -> "k"
      [] tok = "\"}\"" -> "}"
      [] tok = "\"summary\"" -> "summary"
      [] tok = "\"tech_stack\"" -> "tech_stack"
      [] tok = "\"key_features\"" -> "key_features"
      [] tok = "\"tags\"" -> "tags"
      [] tok = "\"metadata\"" -> "metadata"
      [] tok = "\"confidence_score\"" -> "confidence_score"
      [] tok = "\"content\"" -> "content"
      [] tok = "\"text\"" -> "text"

\* the string literals with a "}" character between their quotes
BraceLiterals == {"\"}\""}

\* a string literal cut off after its "}" character
CutLiteral == "\"}"

NumberLiterals == {"0.9"}

JsonNull == [null |-> TRUE]

JsonStr(text) == [str |-> text]

JsonNum(tok) == [num |-> tok]

JsonObj(d) == [obj |-> d]

JsonArr(items) == [arr |-> items]

IsDict(v) == "obj" \in DOMAIN v

IsList(v) == "arr" \in DOMAIN v

IsStr(v) == "str" \in DOMAIN v

RECURSIVE SkipWs(_)
SkipWs(s) == IF s # <<>> /\ Head(s) \in JsonWhitespace THEN SkipWs(Tail(s)) ELSE s

ParseFail == [ok |-> FALSE, value |-> JsonNull, rest |-> <<>>]

Parsed(value, rest) == [ok |-> TRUE, value |-> value, rest |-> rest]

\* the JSON decoder: one value at the head of s; the members of an object after
\* its "{"; the elements of an array after its "["
RECURSIVE ParseValue(_), ParseMembers(_, _), ParseElements(_, _)
ParseValue(s0) ==
    LET s == SkipWs(s0) IN
    IF s = <<>> THEN ParseFail
    ELSE IF Head(s) \in StringLiterals THEN Parsed(JsonStr(<<StringContent(Head(s))>>), Tail(s))
    ELSE IF Head(s) \in NumberLiterals THEN Parsed(JsonNum(Head(s)), Tail(s))
    ELSE IF Head(s) = "null" THEN Parsed(JsonNull, Tail(s))
    ELSE IF Head(s) = "{"
         THEN LET t == SkipWs(Tail(s)) IN
              IF t # <<>> /\ Head(t) = "}" THEN Parsed(JsonObj(EmptyDict), Tail(t))
              ELSE ParseMembers(t, EmptyDict)
    ELSE IF Head(s) = "["
         THEN LET t == SkipWs(Tail(s)) IN
              IF t # <<>> /\ Head(t) = "]" THEN Parsed(JsonArr(<<>>), Tail(t))
              ELSE ParseElements(t, <<>>)
    ELSE ParseFail

ParseMembers(s, acc) ==
    IF s = <<>> \/ Head(s) \notin StringLiterals THEN ParseFail
    ELSE LET a == SkipWs(Tail(s)) IN
         IF a = <<>> \/ Head(a) # ":" THEN ParseFail
         ELSE LET v == ParseValue(Tail(a)) IN
              IF ~v.ok THEN ParseFail
              ELSE LET b == SkipWs(v.rest)
                       acc2 == DictSet(acc, StringContent(Head(s)), v.value)
                   IN  IF b = <<>> THEN ParseFail
                       ELSE IF Head(b) = "}" THEN Parsed(JsonObj(acc2), Tail(b))
                       ELSE IF Head(b) = "," THEN ParseMembers(SkipWs(Tail(b)), acc2)
                       ELSE ParseFail

ParseElements(s, acc) ==
    LET v == ParseValue(s) IN
    IF ~v.ok THEN ParseFail
    ELSE LET b == SkipWs(v.rest)
             acc2 == Append(acc, v.value)
         IN  IF b = <<>> THEN ParseFail
             ELSE IF Head(b) = "]" THEN Parsed(JsonArr(acc2), Tail(b))
             ELSE IF Head(b) = "," THEN ParseElements(Tail(b), acc2)
             ELSE ParseFail

Returned(value) == [raised |-> "None", value |-> value]

Raised(kind) == [raised |-> kind, value |-> JsonNull]

\* json.loads(text)
json_loads(text) ==
    LET r == ParseValue(text) IN
    IF r.ok /\ SkipWs(r.rest) = <<>> THEN Returned(r.value) ELSE Raised("JSONDecodeError")

----------------------------------------------------------------------------
(* Agent tier: _extract_json_from_text and _extract_json_from_response *)

MinOf(S) == CHOOSE x \in S : \A y \in S : x <= y

\* the first position from i on that holds no blank, Len(text) + 1 if none
RECURSIVE NextNonBlank(_, _)
NextNonBlank(text, i) ==
    IF i <= Len(text) /\ text[i] \in JsonWhitespace THEN NextNonBlank(text, i + 1) ELSE i

\* the tokens that begin with a fence
BeginsWithFence(tok) == tok \in {FenceOpen, FenceClose}

\* for a json fence at i: where the group (\{.*?\}) can end, so that blanks and a
\* fence follow
GroupEnds(text, i) ==
    LET b == NextNonBlank(text, i + 1) IN
    IF b > Len(text) \/ text[b] # "{" THEN {}
    ELSE {e \in (b + 1)..Len(text) :
            /\ text[e] = "}"
            /\ LET c == NextNonBlank(text, e + 1) IN
               c <= Len(text) /\ BeginsWithFence(text[c])}

\* re.search(<fence>json\s*(\{.*?\})\s*<fence>, text, re.DOTALL): the leftmost
\* match, with the shortest group
fence_search(text) ==
    LET starts == {i \in 1..Len(text) : text[i] = FenceOpen /\ GroupEnds(text, i) # {}} IN
    IF starts = {} THEN [matched |-> FALSE, group |-> <<>>]
    ELSE LET i == MinOf(starts) IN
         [matched |-> TRUE,
          group |-> SubSeq(text, NextNonBlank(text, i + 1), MinOf(GroupEnds(text, i)))]

\* for i in range(start_idx, len(text)): count the braces up to the one that
\* brings brace_count back to 0; a brace inside a string literal counts as well
RECURSIVE brace_loop(_, _, _)
brace_loop(text, i, brace_count) ==
    IF i > Len(text) THEN [found |-> FALSE, at |-> 0, cut |-> FALSE]
    ELSE IF text[i] = "{" THEN brace_loop(text, i + 1, brace_count + 1)
    ELSE IF text[i] = "}" \/ text[i] \in BraceLiterals
         THEN IF brace_count - 1 = 0
              THEN [found |-> TRUE, at |-> i, cut |-> text[i] \in BraceLiterals]
              ELSE brace_loop(text, i + 1, brace_count - 1)
    ELSE brace_loop(text, i + 1, brace_count)

\* text[start_idx:end_idx] of the brace count, if end_idx > start_idx
brace_scan(text) ==
    LET braces == {i \in 1..Len(text) : text[i] = "{"} IN
    IF braces = {} THEN [found |-> FALSE, json_str |-> <<>>]
    ELSE LET start_idx == MinOf(braces)
             r == brace_loop(text, start_idx, 0)
         IN  IF ~r.found THEN [found |-> FALSE, json_str |-> <<>>]
             ELSE [found |-> TRUE,
                   json_str |-> IF r.cut
                                THEN SubSeq(text, start_idx, r.at - 1) \o <<CutLiteral>>
                                ELSE SubSeq(text, start_idx, r.at)]

\* _extract_json_from_text(text)
extract_json_from_text(text) ==
    LET m == fence_search(text)
        b == brace_scan(text)
    IN  IF m.matched THEN json_loads(m.group)
        ELSE IF b.found THEN json_loads(b.json_str)
        ELSE json_loads(text)

\* repr() of the Python values that are no str at top level; a quoted str and
\* a dict with entries are written with single quotes, which no JSON text has
RECURSIVE Repr(_), ReprItems(_)
Repr(v) ==
    IF "null" \in DOMAIN v THEN <<"None">>
    ELSE IF "num" \in DOMAIN v THEN <<v.num>>
    ELSE IF IsList(v) THEN <<"[">> \o ReprItems(v.arr) \o <<"]">>
    ELSE IF IsDict(v) /\ v.obj = EmptyDict THEN <<"{", "}">>
    ELSE <<"repr">>

ReprItems(items) ==
    IF items = <<>> THEN <<>>
    ELSE IF Len(items) = 1 THEN Repr(items[1])
    ELSE Repr(items[1]) \o <<",", " ">> \o ReprItems(Tail(items))

\* str(value)
Str(v) == IF IsStr(v) THEN v.str ELSE Repr(v)

\* for item in raw_message["content"]: text_content += item["text"]
RECURSIVE content_loop(_, _)
content_loop(items, text_content) ==
    IF items = <<>> THEN Returned(JsonStr(text_content))
    ELSE LET item == Head(items) IN
         IF IsDict(item) /\ "text" \in DOMAIN item.obj
         THEN IF IsStr(item.obj["text"])
              THEN content_loop(Tail(items), text_content \o item.obj["text"].str)
              ELSE Raised("TypeError")
         ELSE content_loop(Tail(items), text_content)

\* a variant that returns every dict as it is
extract_json_from_response_as_is(raw_message) ==
    IF IsDict(raw_message) THEN Returned(raw_message)
    ELSE IF IsStr(raw_message) THEN extract_json_from_text(raw_message.str)
    ELSE json_loads(Str(raw_message))

\* _extract_json_from_response(raw_message)
extract_json_from_response(raw_message) ==
    IF IsDict(raw_message)
    THEN IF "content" \in DOMAIN raw_message.obj /\ IsList(raw_message.obj["content"])
         THEN LET c == content_loop(raw_message.obj["content"].arr, <<>>) IN
              IF c.raised # "None" THEN c ELSE extract_json_from_text(c.value.str)
         ELSE Returned(raw_message)
    ELSE IF IsStr(raw_message) THEN extract_json_from_text(raw_message.str)
    ELSE json_loads(Str(raw_message))

----------------------------------------------------------------------------
(* Agent tier: one use of the extractor *)

\* the tokens of the texts tried exhaustively
TextAlphabet == {"{", "}", ":", "x", "\"k\"", "\"}\"", FenceOpen, FenceClose}

SeqsUpTo(S, n) == UNION {[1..k -> S] : k \in 0..n}

ShortTexts == SeqsUpTo(TextAlphabet, MaxTextLen)

\* the short texts that are one JSON object
JsonObjects == {t \in ShortTexts : json_loads(t).raised = "None" /\ IsDict(json_loads(t).value)}

\* a JSON object in a markdown json block, bare, and inside prose
Wrap(wrapping, json) ==
    CASE wrapping = "fence" -> <<FenceOpen, "\n">> \o json \o <<"\n", FenceClose>>
      [] wrapping = "raw" -> json
      [] wrapping = "prose" -> <<"x", " ">> \o json \o <<" ", "x">>

Wrappings == {"fence", "raw", "prose"}

Dict1(k, v) == DictSet(EmptyDict, k, v)

\* {"text": text}
TextItem(text) == JsonObj(Dict1("text", JsonStr(text)))

\* the content arrays tried: text items, items without text, a text that is no str
ContentLists ==
    { <<>>,
      <<TextItem(<<"{", "}">>)>>,
      <<TextItem(<<"x">>)>>,
      <<TextItem(<<"{", "\"k\"", ":", "\"k\"", "}">>)>>,
      <<TextItem(<<"{", "\"content\"", ":", "[", "]", "}">>)>>,
      <<TextItem(<<"{", "\"content\"", ":", "\"k\"", "}">>)>>,
      <<TextItem(<<"{">>), JsonNull, JsonObj(EmptyDict), TextItem(<<"}">>)>>,
      <<TextItem(<<"{", "}">>), JsonObj(Dict1("text", JsonNull))>> }

\* the dicts tried: plain ones, and ones with a "content" entry
Mappings ==
    { JsonObj(EmptyDict),
      JsonObj(Dict1("k", JsonStr(<<"k">>))),
      JsonObj(Dict1("content", JsonStr(<<"x">>))),
      JsonObj(DictSet(Dict1("content", JsonNull), "k", JsonArr(<<>>))) }
    \cup {JsonObj(Dict1("content", JsonArr(c))) : c \in ContentLists}

\* the values tried that are neither dict nor str
OtherValues == {JsonNull, JsonNum("0.9"), JsonArr(<<>>), JsonArr(<<JsonNull, JsonNull>>)}

ExtractInit ==
    /\ WorkflowIdle /\ CacheIdle /\ AnalyzeIdle
    /\ run = Idle /\ github = Idle /\ invoke = Idle /\ leveling = Idle
    /\ \/ \E text \in ShortTexts :
            ex = [pc |-> "input", raw_message |-> JsonStr(text), wrapping |-> "none",
                  json |-> <<>>]
       \/ \E json \in JsonObjects, wrapping \in Wrappings :
            ex = [pc |-> "input", raw_message |-> JsonStr(Wrap(wrapping, json)),
                  wrapping |-> wrapping, json |-> json]
       \/ \E v \in Mappings \cup OtherValues :
            ex = [pc |-> "input", raw_message |-> v, wrapping |-> "none", json |-> <<>>]

\* analysis_data = _extract_json_from_response(raw_message)
extract_json_from_response_call ==
    /\ ex.pc = "input"
    /\ ex' = [pc |-> "done", raw_message |-> ex.raw_message, wrapping |-> ex.wrapping,
              json |-> ex.json, out |-> extract_json_from_response(ex.raw_message)]
    /\ UNCHANGED <<wfVars, cacheVars, ghostVars, anVars, run, github, invoke, leveling>>

\* the extractor applied to what it returned
extract_json_from_response_again ==
    /\ ex.pc = "done" /\ ex.out.raised = "None"
    /\ ex' = [pc |-> "again", raw_message |-> ex.raw_message, wrapping |-> ex.wrapping,
              json |-> ex.json, out |-> ex.out,
              again |-> extract_json_from_response(ex.out.value)]
    /\ UNCHANGED <<wfVars, cacheVars, ghostVars, anVars, run, github, invoke, leveling>>

ExtractNext == extract_json_from_response_call \/ extract_json_from_response_again

SpecExtract == ExtractInit /\ [][ExtractNext]_vars

----------------------------------------------------------------------------
(* Agent tier: _create_fallback_response and analyze_project *)

JsonBool(b) == [bool |-> b]

DictOf(keys, values) == [i \in {keys[n] : n \in 1..Len(keys)} |->
                            values[CHOOSE n \in 1..Len(keys) : keys[n] = i]]

\* a fallback that leaves the summary empty
create_fallback_response_no_summary(owner, repo, raw_message) ==
    JsonObj(DictOf(<<"summary", "tech_stack", "key_features", "tags", "metadata",
                     "confidence_score">>,
                   <<JsonStr(<<>>), JsonArr(<<>>), JsonArr(<<>>), JsonArr(<<>>),
                     JsonObj(EmptyDict), JsonNum("0.5")>>))

\* _create_fallback_response(owner, repo, raw_message)
create_fallback_response(owner, repo, raw_message) ==
    JsonObj(DictOf(
        <<"summary", "tech_stack", "key_features", "tags", "metadata", "confidence_score">>,
        <<JsonStr(raw_message), JsonArr(<<>>), JsonArr(<<>>), JsonArr(<<>>),
          JsonObj(DictOf(
              <<"repository_owner", "repository_name", "primary_language",
                "language_distribution", "star_count", "fork_count", "last_updated",
                "has_readme", "has_tests", "has_ci">>,
              <<JsonStr(owner), JsonStr(repo), JsonStr(<<"Unknown">>),
                JsonObj(EmptyDict), JsonNum("0"), JsonNum("0"), JsonStr(<<>>),
                JsonBool(FALSE), JsonBool(FALSE), JsonBool(FALSE)>>)),
          JsonNum("0.5")>>))

\* repo_url.rstrip("/")
RECURSIVE RStripSlash(_)
RStripSlash(s) ==
    IF s # <<>> /\ s[Len(s)] = "/" THEN RStripSlash(SubSeq(s, 1, Len(s) - 1)) ELSE s

\* s.split("/"): the parts between the slashes, with the part being read last
RECURSIVE SplitSlash(_, _)
SplitSlash(s, parts) ==
    IF s = <<>> THEN parts
    ELSE IF Head(s) = "/" THEN SplitSlash(Tail(s), Append(parts, <<>>))
    ELSE SplitSlash(Tail(s), [parts EXCEPT ![Len(parts)] = @ \o <<Head(s)>>])

\* a parser that raises for no string
parse_github_url_lenient(repo_url) ==
    IF ~IsStr(repo_url) THEN [raised |-> "ValueError", owner |-> <<>>, repo |-> <<>>]
    ELSE LET parts == <<<<>>>> \o SplitSlash(RStripSlash(repo_url.str), <<<<>>>>) IN
         [raised |-> "None", owner |-> parts[Len(parts) - 1], repo |-> parts[Len(parts)]]

\* _parse_github_url(repo_url): a value without rstrip (AttributeError) and a
\* parts list without parts[-2] (IndexError) give ValueError
parse_github_url(repo_url) ==
    IF ~IsStr(repo_url) THEN [raised |-> "ValueError", owner |-> <<>>, repo |-> <<>>]
    ELSE LET parts == SplitSlash(RStripSlash(repo_url.str), <<<<>>>>) IN
         IF Len(parts) < 2 THEN [raised |-> "ValueError", owner |-> <<>>, repo |-> <<>>]
         ELSE [raised |-> "None", owner |-> parts[Len(parts) - 1], repo |-> parts[Len(parts)]]

\* if not repo_url
IsFalsy(v) == v = JsonNull \/ v = JsonStr(<<>>)

GithubRepoUrl == <<"https:", "/", "/", "github.com", "/", "owner", "/", "repo">>

\* the values of payload.get("repository_url") tried: None (no such key), the
\* empty string, repository URLs, and strings and values that are none
RepositoryUrlValues ==
    { JsonNull, JsonStr(<<>>),
      JsonStr(GithubRepoUrl),
      JsonStr(GithubRepoUrl \o <<"/">>),
      JsonStr(<<"https:", "/", "/", "github.com", "/", "owner">>),
      JsonStr(<<"https:", "/", "/", "gitlab.com", "/", "owner", "/", "repo">>),
      JsonStr(<<"owner", "/", "repo">>),
      JsonStr(<<"invalid-url">>),
      JsonStr(<<"/">>),
      JsonNum("0.9") }

\* how _get_github_token ends: the secret, the GITHUB_TOKEN variable after the
\* secret could not be read, or an exception
TokenOutcomes == {"secret", "environment", "raise"}

Obj(text) == <<"{">> \o text \o <<"}">>

\* the JSON objects the agent is asked for or produces instead
ReplyObjects ==
    { Obj(<<"\"summary\"", ":", "\"k\"", ",", "\"tech_stack\"", ":", "[", "]", ",",
            "\"key_features\"", ":", "[", "]", ",", "\"tags\"", ":", "[", "]", ",",
            "\"metadata\"", ":", "{", "}", ",", "\"confidence_score\"", ":", "0.9">>),
      Obj(<<"\"tech_stack\"", ":", "null">>),
      Obj(<<"\"tech_stack\"", ":", "\"k\"">>),
      Obj(<<"\"k\"", ":", "\"k\"">>),
      Obj(<<"\"summary\"", ":", "\"}\"">>) }

\* the texts of a reply: an object as the agent may present it, prose alone,
\* JSON that is no object, a block that is not closed
ReplyTexts ==
    {Wrap(w, o) : w \in Wrappings, o \in ReplyObjects}
        \cup {<<>>, <<"x">>, <<"null">>, <<"[", "]">>, <<"\"k\"">>,
              <<FenceOpen, "\n", "{", "}">>}

\* result.message: the message dict with its content array, a text, a plain
\* dict, None, or a content item whose text is no str
AgentMessages ==
    {JsonObj(Dict1("content", JsonArr(<<TextItem(t)>>))) : t \in ReplyTexts}
        \cup {JsonStr(t) : t \in ReplyTexts}
        \cup { JsonObj(Dict1("k", JsonStr(<<"k">>))),
               JsonObj(Dict1("tech_stack", JsonNum("0.9"))),
               JsonObj(Dict1("content", JsonArr(<<JsonObj(Dict1("text", JsonNull))>>))),
               JsonNull }

request_id == "uuid4"

FailedResponse(error) == [request_id |-> request_id, error |-> error, status |-> "failed"]

CompletedResponse(analysis) ==
    [request_id |-> request_id, status |-> "completed", analysis |-> analysis,
     processing_time_ms |-> "duration_ms"]

FallbackResponse(analysis) ==
    [request_id |-> request_id, status |-> "completed", analysis |-> analysis,
     processing_time_ms |-> "duration_ms",
     warning |-> "Response was not in expected JSON format"]

NoOutcome == Returned(JsonNull)

\* analyze_project returns
Reply(resp) == [run EXCEPT !.pc = "done", !.response = resp]

\* analyze_project(payload) up to the call of _get_github_token
analyze_project_parse ==
    /\ run.pc = "start"
    /\ \E repo_url \in RepositoryUrlValues :
         LET entered == [pc |-> "token", repo_url |-> repo_url, owner |-> <<>>,
                         repo |-> <<>>, calls |-> <<>>, message |-> JsonNull,
                         extracted |-> NoOutcome, response |-> NoResponse]
             parsed == parse_github_url(repo_url)
         IN  IF IsFalsy(repo_url)
             THEN run' = [entered EXCEPT !.pc = "done",
                             !.response = FailedResponse("repository_url is required in payload")]
             ELSE IF parsed.raised # "None"
             THEN run' = [entered EXCEPT !.pc = "done",
                             !.calls = <<"_parse_github_url">>,
                             !.response = FailedResponse("Invalid GitHub URL format")]
             ELSE run' = [entered EXCEPT !.owner = parsed.owner, !.repo = parsed.repo,
                             !.calls = <<"_parse_github_url", "_get_github_token">>]
    /\ UNCHANGED <<wfVars, cacheVars, ghostVars, anVars, ex, github, invoke, leveling>>

\* from the return of _get_github_token to the call of the agent
analyze_project_token ==
    /\ run.pc = "token"
    /\ \E outcome \in TokenOutcomes :
         IF outcome = "raise"
         THEN run' = Reply(FailedResponse("Failed to get GitHub token"))
         ELSE run' = [run EXCEPT !.pc = "agent", !.calls = @ \o <<"agent">>]
    /\ UNCHANGED <<wfVars, cacheVars, ghostVars, anVars, ex, github, invoke, leveling>>

\* the MCP session or the agent raises
analyze_project_mcp_error ==
    /\ run.pc = "agent"
    /\ run' = Reply(FailedResponse("MCP operation failed"))
    /\ UNCHANGED <<wfVars, cacheVars, ghostVars, anVars, ex, github, invoke, leveling>>

\* len(analysis_data.get("tech_stack", [])) in the logging call
tech_stack_count(analysis_data) ==
    IF ~IsDict(analysis_data) THEN "AttributeError"
    ELSE IF "tech_stack" \notin DOMAIN analysis_data.obj THEN "None"
    ELSE LET v == analysis_data.obj["tech_stack"] IN
         IF IsList(v) \/ IsStr(v) \/ IsDict(v) THEN "None" ELSE "TypeError"

\* a parse step whose fallback analysis is the summary alone
parse_response_bare_fallback(owner, repo, message) ==
    LET out == extract_json_from_response(message)
        logged == IF out.raised = "None" THEN tech_stack_count(out.value) ELSE out.raised
    IN  IF logged = "None" THEN CompletedResponse(out.value)
        ELSE IF logged \in {"JSONDecodeError", "AttributeError", "KeyError"}
        THEN FallbackResponse(JsonObj(Dict1("summary", JsonStr(Str(message)))))
        ELSE FailedResponse("Unexpected error during analysis")

\* analyze_project from "# Parse response" on: what is returned for a message
parse_response(owner, repo, message) ==
    LET out == extract_json_from_response(message)
        logged == IF out.raised = "None" THEN tech_stack_count(out.value) ELSE out.raised
    IN  IF logged = "None" THEN CompletedResponse(out.value)
        ELSE IF logged \in {"JSONDecodeError", "AttributeError", "KeyError"}
        THEN FallbackResponse(create_fallback_response(owner, repo, Str(message)))
        ELSE FailedResponse("Unexpected error during analysis")

\* the agent returns result; the response is parsed and analyze_project returns
analyze_project_reply ==
    /\ run.pc = "agent"
    /\ \E message \in AgentMessages :
         run' = [run EXCEPT !.pc = "done",
                            !.message = message,
                            !.extracted = extract_json_from_response(message),
                            !.calls = @ \o <<"_extract_json_from_response">>,
                            !.response = parse_response(run.owner, run.repo, message)]
    /\ UNCHANGED <<wfVars, cacheVars, ghostVars, anVars, ex, github, invoke, leveling>>

AgentInit ==
    /\ WorkflowIdle /\ CacheIdle /\ AnalyzeIdle
    /\ ex = Idle /\ github = Idle /\ invoke = Idle /\ leveling = Idle
    /\ run = [pc |-> "start"]

AgentNext ==
    \/ analyze_project_parse
    \/ analyze_project_token
    \/ analyze_project_mcp_error
    \/ analyze_project_reply

SpecAgent == AgentInit /\ [][AgentNext]_vars

----------------------------------------------------------------------------
(* The two tiers: the agent's entry point and the /api/projects/analyze endpoint *)

\* the tiers are separate processes without shared state: a behaviour follows
\* one agent run or the requests of the endpoint (at one time of the clock)
TiersInit ==
    /\ WorkflowIdle /\ CacheIdle /\ AnalyzeIdle
    /\ ex = Idle /\ github = Idle /\ invoke = Idle /\ leveling = Idle
    /\ run = [pc |-> "start"]

TiersNext ==
    \/ AnalyzeIdle /\ CacheIdle /\ AgentNext
    \/ /\ run.pc = "start"
       /\ \E r \in Requests :
            \/ analyze_project_validate(r)
            \/ analyze_project_lookup(r)
            \/ analyze_project_store(r)

SpecTiers == TiersInit /\ [][TiersNext]_vars

----------------------------------------------------------------------------
(* Agent tier: one use of the fallback builder *)

OwnerNames == {<<>>, <<"owner">>, <<"github.com">>}

RepoNames == {<<>>, <<"repo">>, <<"owner">>}

RawMessages == SeqsUpTo(TextAlphabet, 2) \cup {<<"repr">>, <<"None">>}

FallbackInit ==
    /\ WorkflowIdle /\ CacheIdle /\ AnalyzeIdle
    /\ ex = Idle /\ github = Idle /\ invoke = Idle /\ leveling = Idle
    /\ \E owner \in OwnerNames, repo \in RepoNames, raw_message \in RawMessages :
         run = [pc |-> "fallback", owner |-> owner, repo |-> repo,
                raw_message |-> raw_message]

\* _create_fallback_response(owner, repo, raw_message) is called and returns
create_fallback_response_call ==
    /\ run.pc = "fallback"
    /\ run' = [pc |-> "built", owner |-> run.owner, repo |-> run.repo,
               raw_message |-> run.raw_message,
               analysis |-> create_fallback_response(run.owner, run.repo, run.raw_message)]
    /\ UNCHANGED <<wfVars, cacheVars, ghostVars, anVars, ex, github, invoke, leveling>>

FallbackNext == create_fallback_response_call

SpecFallback == FallbackInit /\ [][FallbackNext]_vars

----------------------------------------------------------------------------
(* GitHubValidator: check_repository_exists and the rate limit cache *)

rate_limit_cache_seconds == 60

default_remaining == 1000

default_limit == 5000

Datetime(t) == [timestamp |-> t]

RateLimitInfo(is_limited, reset_time, remaining, limit) ==
    [is_limited |-> is_limited, reset_time |-> reset_time, remaining |-> remaining,
     limit |-> limit]

\* RateLimitInfo(is_limited=False, remaining=1000, limit=5000)
ConservativeEstimate == RateLimitInfo(FALSE, NoneValue, default_remaining, default_limit)

\* the x-ratelimit-* headers of a response: absent, not numbers, or numbers
RateLimitHeaders ==
    { [kind |-> "missing", remaining |-> 0, reset |-> 0],
      [kind |-> "malformed", remaining |-> 0, reset |-> 0],
      [kind |-> "numbers", remaining |-> 0, reset |-> 3600],
      [kind |-> "numbers", remaining |-> 42, reset |-> 3600] }

\* the try block of _get_rate_limit_from_headers and _update_rate_limit_cache:
\* the RateLimitInfo of well-formed headers
InfoOfHeaders(headers) ==
    LET remaining == IF headers.kind = "numbers" THEN headers.remaining ELSE default_remaining
        reset_timestamp == IF headers.kind = "numbers" THEN headers.reset ELSE 0
        reset_time == IF reset_timestamp # 0 THEN Datetime(reset_timestamp) ELSE NoneValue
        is_limited == remaining <= 0
    IN  RateLimitInfo(is_limited, IF is_limited THEN reset_time ELSE NoneValue,
                      remaining, default_limit)

\* header detection that always gives the estimate
get_rate_limit_from_headers_estimate(headers) == ConservativeEstimate

\* _get_rate_limit_from_headers(headers)
get_rate_limit_from_headers(headers) ==
    IF headers.kind = "malformed" THEN ConservativeEstimate ELSE InfoOfHeaders(headers)

\* an update that is left out
update_rate_limit_cache_never(g, headers, t) == g

\* _update_rate_limit_cache(headers)
update_rate_limit_cache(g, headers, t) ==
    IF headers.kind = "malformed" THEN g
    ELSE [g EXCEPT !.rate_limit_cache = InfoOfHeaders(headers),
                   !.cache_expiry = Datetime(t + rate_limit_cache_seconds)]

\* self._rate_limit_cache and self._cache_expiry and datetime.now() < self._cache_expiry
CacheFresh(g, t) ==
    /\ g.rate_limit_cache # NoneValue
    /\ g.cache_expiry # NoneValue
    /\ t < g.cache_expiry.timestamp

\* a read that takes an expired cache for a fresh one
is_rate_limited_stale(g, t) ==
    IF g.rate_limit_cache # NoneValue
    THEN <<g.rate_limit_cache.is_limited, g.rate_limit_cache.reset_time>>
    ELSE <<FALSE, NoneValue>>

\* is_rate_limited()
is_rate_limited(g, t) ==
    IF CacheFresh(g, t)
    THEN <<g.rate_limit_cache.is_limited, g.rate_limit_cache.reset_time>>
    ELSE <<FALSE, NoneValue>>

Checks == 1..MaxChecks

\* replies to GET /rate_limit: 200 with the core resource, another status with
\* headers, or an exception (transport, or a body without the core resource)
ProbeReplies ==
    {[kind |-> "ok", remaining |-> r, reset |-> 3600, headers |-> [kind |-> "missing",
            remaining |-> 0, reset |-> 0]] : r \in {0, 42}}
        \cup {[kind |-> "status", remaining |-> 0, reset |-> 0, headers |-> h] :
                h \in RateLimitHeaders}
        \cup {[kind |-> "exception", remaining |-> 0, reset |-> 0,
               headers |-> [kind |-> "missing", remaining |-> 0, reset |-> 0]]}

\* replies to GET /repos/{owner}/{repo}: a response, or an exception of httpx
RepoStatuses == {200, 404, 403, 500}

\* rate_limit_text: "rate limit" in response.text.lower(), read for a 403
RepoReplies ==
    {[kind |-> "response", status_code |-> st, rate_limit_text |-> rl, headers |-> h] :
        st \in RepoStatuses, rl \in BOOLEAN, h \in RateLimitHeaders}
        \cup {[kind |-> k, status_code |-> 0, rate_limit_text |-> FALSE,
               headers |-> [kind |-> "missing", remaining |-> 0, reset |-> 0]] :
                k \in {"TimeoutException", "NetworkError"}}

\* sent: the GET requests the call has made of the client, in order
IdleCall == [pc |-> "idle", rate_limit_info |-> NoneValue, sent |-> <<>>, outcome |-> NoOutcome]

\* a call in which the limit is never taken as reached
limit_reached_never(rate_limit_info) == FALSE

\* if rate_limit_info.is_limited
limit_reached(rate_limit_info) == rate_limit_info.is_limited

\* check_repository_exists with rate_limit_info in hand: raise, or send the GET
\* for the repository
Gate(g, c, rate_limit_info) ==
    IF limit_reached(rate_limit_info)
    THEN [g EXCEPT !.calls[c].pc = "done",
                   !.calls[c].rate_limit_info = rate_limit_info,
                   !.calls[c].outcome = Raised("GitHub API rate limit exceeded. Resets at")]
    ELSE [g EXCEPT !.calls[c].pc = "repos",
                   !.calls[c].rate_limit_info = rate_limit_info,
                   !.calls[c].sent = Append(@, "/repos/{owner}/{repo}")]

\* a cache that never goes stale
cache_fresh_ever(g, t) == g.rate_limit_cache # NoneValue /\ g.cache_expiry # NoneValue

\* get_rate_limit_info: if self._rate_limit_cache and self._cache_expiry and
\* datetime.now() < self._cache_expiry
cache_fresh(g, t) == CacheFresh(g, t)

\* a start that asks GET /rate_limit whatever the cache holds
check_repository_exists_start_asking(g, c, t) ==
    [g EXCEPT !.calls[c].pc = "rate_limit",
              !.calls[c].sent = Append(@, "/rate_limit")]

\* check_repository_exists(owner, repo) up to its first await of the client: the
\* validator after it
check_repository_exists_start(g, c, t) ==
    IF cache_fresh(g, t)
    THEN Gate(g, c, g.rate_limit_cache)
    ELSE [g EXCEPT !.calls[c].pc = "rate_limit",
                   !.calls[c].sent = Append(@, "/rate_limit")]

\* get_rate_limit_info from the reply of GET /rate_limit on, and the check of
\* is_limited that follows it: the validator after them
get_rate_limit_info_resume(g, c, reply, t) ==
    CASE reply.kind = "ok" ->
           LET rate_limit_info ==
                   RateLimitInfo(reply.remaining <= 0, Datetime(reply.reset),
                                 reply.remaining, default_limit)
               cached == [g EXCEPT
                             !.rate_limit_cache = rate_limit_info,
                             !.cache_expiry = Datetime(t + rate_limit_cache_seconds)]
           IN  Gate(cached, c, rate_limit_info)
      [] reply.kind = "status" -> Gate(g, c, get_rate_limit_from_headers(reply.headers))
      [] OTHER -> Gate(g, c, ConservativeEstimate)

check_repository_exists_begin(c) ==
    /\ github.calls[c].pc = "idle"
    /\ \A earlier \in 1..(c - 1) : github.calls[earlier].pc # "idle"
    /\ github' = check_repository_exists_start(github, c, now)
    /\ UNCHANGED <<wfVars, cacheVars, ghostVars, anVars, ex, run, invoke, leveling>>

get_rate_limit_info_reply(c) ==
    /\ github.calls[c].pc = "rate_limit"
    /\ \E reply \in ProbeReplies :
         github' = get_rate_limit_info_resume(github, c, reply, now)
    /\ UNCHANGED <<wfVars, cacheVars, ghostVars, anVars, ex, run, invoke, leveling>>

\* a match in which every 403 is the rate limit
classify_forbidden_limited(reply) ==
    CASE reply.status_code = 200 -> Returned(JsonBool(TRUE))
      [] reply.status_code = 404 -> Returned(JsonBool(FALSE))
      [] reply.status_code = 403 -> Raised("GitHub API rate limit exceeded")
      [] OTHER -> Raised("GitHub API error")

\* match response.status_code
classify(reply) ==
    CASE reply.status_code = 200 -> Returned(JsonBool(TRUE))
      [] reply.status_code = 404 -> Returned(JsonBool(FALSE))
      [] reply.status_code = 403 ->
            IF reply.rate_limit_text THEN Raised("GitHub API rate limit exceeded")
            ELSE Returned(JsonBool(FALSE))
      [] OTHER -> Raised("GitHub API error")

\* check_repository_exists from the reply of GET /repos/{owner}/{repo} on: the
\* validator after it
check_repository_exists_resume(g, c, reply, t) ==
    IF reply.kind = "response"
    THEN [update_rate_limit_cache(g, reply.headers, t) EXCEPT
             !.calls[c].pc = "done",
             !.calls[c].outcome = classify(reply)]
    ELSE [g EXCEPT
             !.calls[c].pc = "done",
             !.calls[c].outcome =
                 IF reply.kind = "TimeoutException"
                 THEN Raised("GitHub API request timeout")
                 ELSE Raised("Network error")]

check_repository_exists_reply(c) ==
    /\ github.calls[c].pc = "repos"
    /\ \E reply \in RepoReplies :
         github' = check_repository_exists_resume(github, c, reply, now)
    /\ UNCHANGED <<wfVars, cacheVars, ghostVars, anVars, ex, run, invoke, leveling>>

\* time passes between the steps of the calls: a cached RateLimitInfo is fresh
\* until a step, and expired from then on
GithubTick ==
    /\ ticks < MaxTicks
    /\ now' = now + rate_limit_cache_seconds
    /\ ticks' = ticks + 1
    /\ UNCHANGED <<cache, ghostVars, anVars, wfVars, tierVars>>

GithubInit ==
    /\ WorkflowIdle /\ CacheIdle /\ AnalyzeIdle
    /\ ex = Idle /\ run = Idle /\ invoke = Idle /\ leveling = Idle
    /\ github = [rate_limit_cache |-> NoneValue, cache_expiry |-> NoneValue,
                 calls |-> [c \in Checks |-> IdleCall]]

GithubNext ==
    \/ \E c \in Checks : check_repository_exists_begin(c)
    \/ \E c \in Checks : get_rate_limit_info_reply(c)
    \/ \E c \in Checks : check_repository_exists_reply(c)
    \/ GithubTick

SpecGithub == GithubInit /\ [][GithubNext]_vars

----------------------------------------------------------------------------
(* GitHubValidator used by one caller at a time, each step noted in last *)

NoStep == [op |-> "none", call |-> 0, before |-> NoneValue, at |-> 0,
           reply |-> NoneValue, result |-> NoneValue]

\* the step just taken: the call, the validator before it, the time, the reply
\* it was given, what it returned
Step(op, c, reply, result) ==
    [op |-> op, call |-> c,
     before |-> [rate_limit_cache |-> github.rate_limit_cache,
                 cache_expiry |-> github.cache_expiry, calls |-> github.calls],
     at |-> now, reply |-> reply, result |-> result]

Alone(c) == \A other \in Checks \ {c} : github.calls[other].pc = "idle"

\* await validator.check_repository_exists(owner, repo), up to the first GET
tracked_begin(c) ==
    /\ github.calls[c].pc = "idle" /\ Alone(c)
    /\ \A earlier \in 1..(c - 1) : github.calls[earlier].pc # "idle"
    /\ github' = [check_repository_exists_start(github, c, now) EXCEPT
                     !.last = Step("begin", c, NoneValue, NoneValue)]
    /\ UNCHANGED <<wfVars, cacheVars, ghostVars, anVars, ex, run, invoke, leveling>>

tracked_rate_limit_reply(c) ==
    /\ github.calls[c].pc = "rate_limit"
    /\ \E reply \in ProbeReplies :
         github' = [get_rate_limit_info_resume(github, c, reply, now) EXCEPT
                       !.last = Step("rate_limit_reply", c, reply, NoneValue)]
    /\ UNCHANGED <<wfVars, cacheVars, ghostVars, anVars, ex, run, invoke, leveling>>

tracked_repos_reply(c) ==
    /\ github.calls[c].pc = "repos"
    /\ \E reply \in RepoReplies :
         github' = [check_repository_exists_resume(github, c, reply, now) EXCEPT
                       !.last = Step("repos_reply", c, reply, NoneValue)]
    /\ UNCHANGED <<wfVars, cacheVars, ghostVars, anVars, ex, run, invoke, leveling>>

\* the caller has its answer; its next call starts afresh
tracked_return(c) ==
    /\ github.calls[c].pc = "done"
    /\ github' = [github EXCEPT !.calls[c] = IdleCall,
                                !.last = Step("return", c, NoneValue, NoneValue)]
    /\ UNCHANGED <<wfVars, cacheVars, ghostVars, anVars, ex, run, invoke, leveling>>

\* validator.is_rate_limited()
is_rate_limited_call ==
    /\ github.last.op # "is_rate_limited"
    /\ github' = [github EXCEPT
                     !.last = Step("is_rate_limited", 0, NoneValue,
                                   is_rate_limited(github, now))]
    /\ UNCHANGED <<wfVars, cacheVars, ghostVars, anVars, ex, run, invoke, leveling>>

TrackerInit ==
    /\ WorkflowIdle /\ CacheIdle /\ AnalyzeIdle
    /\ ex = Idle /\ run = Idle /\ invoke = Idle /\ leveling = Idle
    /\ github = [rate_limit_cache |-> NoneValue, cache_expiry |-> NoneValue,
                 calls |-> [c \in Checks |-> IdleCall], last |-> NoStep]

TrackerNext ==
    \/ \E c \in Checks : tracked_begin(c)
    \/ \E c \in Checks : tracked_rate_limit_reply(c)
    \/ \E c \in Checks : tracked_repos_reply(c)
    \/ \E c \in Checks : tracked_return(c)
    \/ is_rate_limited_call
    \/ GithubTick

SpecTracker == TrackerInit /\ [][TrackerNext]_vars

----------------------------------------------------------------------------
(* AgentCoreClient.invoke_agent *)

\* timeout_seconds of the calls tried, in ticks of the clock
TimeoutChoices == 0..MaxTicks

\* response["response"].read(): bodies that are JSON, bodies that are not, and
\* bytes that are no UTF-8
ResponseBodies ==
    { <<"{", "}">>, <<"{", "\"k\"", ":", "\"k\"", "}">>, <<"[", "]">>, <<"null">>,
      <<>>, <<"x">>, <<"{">> }

\* what self.client.invoke_agent_runtime does: it returns a response, or raises
\* a ClientError with the service's code and message, or raises something else
RuntimeReplies ==
    {[kind |-> "response", body |-> body, code |-> "", message |-> ""] :
        body \in ResponseBodies}
    \cup {[kind |-> "undecodable", body |-> <<>>, code |-> "", message |-> ""]}
    \cup {[kind |-> "ClientError", body |-> <<>>, code |-> "ValidationException",
           message |-> "Invalid input"],
          [kind |-> "ClientError", body |-> <<>>, code |-> "ThrottlingException",
           message |-> "Rate exceeded"],
          [kind |-> "EndpointConnectionError", body |-> <<>>, code |-> "",
           message |-> "Could not connect to the endpoint URL"]}

\* return result
InvokeReturned(result) ==
    [type |-> "return", args |-> <<>>, result |-> result, context |-> NoneValue]

\* raise type(*args) while context is being handled
InvokeRaised(type, args, context) ==
    [type |-> type, args |-> args, result |-> JsonNull, context |-> context]

\* a limit that is reached at timeout_seconds already
timed_out_at_limit(elapsed_time, timeout_seconds) == elapsed_time >= timeout_seconds

\* if elapsed_time > timeout_seconds
timed_out(elapsed_time, timeout_seconds) == elapsed_time > timeout_seconds

\* a handler that raises the service's code alone
client_error_code_only(reply) ==
    InvokeRaised("Exception", <<"Agent invocation failed: ", reply.code>>, reply)

\* except ClientError as e
client_error(reply) ==
    InvokeRaised("Exception", <<"Agent invocation failed: ", reply.message>>, reply)

\* response_text = response["response"].read().decode("utf-8");
\* result = json.loads(response_text); except json.JSONDecodeError
read_response(reply) ==
    IF reply.kind = "undecodable"
    THEN InvokeRaised("UnicodeDecodeError", <<>>, NoneValue)
    ELSE LET result == json_loads(reply.body) IN
         IF result.raised = "None"
         THEN InvokeReturned(result.value)
         ELSE InvokeRaised("Exception", <<"Invalid response format from agent">>,
                           [kind |-> "JSONDecodeError"])

\* a start that sends the request a second time
invoke_agent_start_twice(inv, t) ==
    [inv EXCEPT !.pc = "waiting", !.start_time = t, !.requests = @ + 2]

\* invoke_agent up to self.client.invoke_agent_runtime(...)
invoke_agent_start(inv, t) ==
    [inv EXCEPT !.pc = "waiting", !.start_time = t, !.requests = @ + 1]

\* invoke_agent from the end of self.client.invoke_agent_runtime(...) on
invoke_agent_resume(inv, reply, t) ==
    LET elapsed_time == t - inv.start_time IN
    [inv EXCEPT
        !.pc = "done", !.reply = reply, !.elapsed_time = elapsed_time,
        !.outcome =
            CASE reply.kind = "ClientError" -> client_error(reply)
              [] reply.kind = "EndpointConnectionError" ->
                    InvokeRaised(reply.kind, <<reply.message>>, NoneValue)
              [] OTHER ->
                    IF timed_out(elapsed_time, inv.timeout_seconds)
                    THEN InvokeRaised("TimeoutError",
                                      <<"Agent invocation exceeded timeout">>, NoneValue)
                    ELSE read_response(reply)]

invoke_agent_call ==
    /\ invoke.pc = "start"
    /\ invoke' = invoke_agent_start(invoke, now)
    /\ UNCHANGED <<wfVars, cacheVars, ghostVars, anVars, ex, run, github, leveling>>

invoke_agent_runtime_reply ==
    /\ invoke.pc = "waiting"
    /\ \E reply \in RuntimeReplies : invoke' = invoke_agent_resume(invoke, reply, now)
    /\ UNCHANGED <<wfVars, cacheVars, ghostVars, anVars, ex, run, github, leveling>>

\* time.time() moves on, before the call and while the runtime is at work
InvokeTick ==
    /\ invoke.pc # "done"
    /\ ticks < MaxTicks
    /\ now' = now + 1 /\ ticks' = ticks + 1
    /\ UNCHANGED <<cache, ghostVars, anVars, wfVars, tierVars>>

InvokeInit ==
    /\ WorkflowIdle /\ CacheIdle /\ AnalyzeIdle
    /\ ex = Idle /\ run = Idle /\ github = Idle /\ leveling = Idle
    /\ \E timeout_seconds \in TimeoutChoices :
         invoke = [pc |-> "start", timeout_seconds |-> timeout_seconds,
                   start_time |-> 0, requests |-> 0, reply |-> NoneValue,
                   elapsed_time |-> 0, outcome |-> InvokeReturned(JsonNull)]

InvokeNext ==
    \/ invoke_agent_call
    \/ invoke_agent_runtime_reply
    \/ InvokeTick

SpecInvoke == InvokeInit /\ [][InvokeNext]_vars

----------------------------------------------------------------------------
(* C12 *)

\* the three strategies, each tried only if the ones before it failed to yield
\* parsed JSON
first_successful_strategy(text) ==
    LET m == fence_search(text)
        b == brace_scan(text)
    IN  IF m.matched /\ json_loads(m.group).raised = "None" THEN json_loads(m.group)
        ELSE IF b.found /\ json_loads(b.json_str).raised = "None" THEN json_loads(b.json_str)
        ELSE json_loads(text)

\* C12: for text input extract returns what the first of the three strategies
\* (json block, brace count, whole text) that parses successfully yields, and
\* fails only if all three fail.
C12_FirstSuccessfulStrategy ==
    (ex.pc = "done" /\ IsStr(ex.raw_message)) =>
        ex.out = first_successful_strategy(ex.raw_message.str)

----------------------------------------------------------------------------
(* C13 *)

\* C13: a well-formed JSON object in a markdown json block, bare, or inside
\* prose is recovered by extract as the same parsed object.
C13_RoundTrip ==
    (ex.pc = "done" /\ ex.wrapping \in Wrappings) => ex.out = json_loads(ex.json)

----------------------------------------------------------------------------
(* C14 *)

HasContentList(v) ==
    IsDict(v) /\ "content" \in DOMAIN v.obj /\ IsList(v.obj["content"])

HasText(item) == IsDict(item) /\ "text" \in DOMAIN item.obj

\* the texts of the items of a content array, one after the other
RECURSIVE JoinedText(_)
JoinedText(items) ==
    IF items = <<>> THEN <<>>
    ELSE (IF HasText(Head(items)) THEN Head(items).obj["text"].str ELSE <<>>)
            \o JoinedText(Tail(items))

\* C14 as stated: for every mapping x, extract returns x as it is, and
\* extract(extract(x)) = extract(x).
C14_EveryMappingIdempotent ==
    (ex.pc # "input" /\ IsDict(ex.raw_message)) =>
        /\ ex.out = Returned(ex.raw_message)
        /\ ex.pc = "again" => ex.again = ex.out

\* C14 amended: a mapping without a "content" list is returned as it is, so
\* extract is idempotent on it; a mapping with a "content" list is unwrapped:
\* the result is the JSON extracted from the concatenated texts of its items (a
\* TypeError if a text is no str).
C14_PlainMappingIdempotent ==
    (ex.pc # "input" /\ IsDict(ex.raw_message)) =>
        IF HasContentList(ex.raw_message)
        THEN LET items == ex.raw_message.obj["content"].arr IN
             IF \E i \in 1..Len(items) : HasText(items[i]) /\ ~IsStr(items[i].obj["text"])
             THEN ex.out = Raised("TypeError")
             ELSE ex.out = extract_json_from_text(JoinedText(items))
        ELSE /\ ex.out = Returned(ex.raw_message)
             /\ ex.pc = "again" => ex.again = ex.out

C14_Witness ==
    /\ ex.pc = "again"
    /\ IsDict(ex.raw_message) /\ ~HasContentList(ex.raw_message)
    /\ "content" \in DOMAIN ex.raw_message.obj
    /\ ex.again = Returned(ex.raw_message)

----------------------------------------------------------------------------
(* C15 *)

\* C15: the fallback builder returns, for every owner, repo and message, an
\* analysis whose summary is the message, whose confidence_score is 0.5, whose
\* tech_stack, key_features, tags and language_distribution are empty, whose
\* metadata names the owner and the repo, with primary_language "Unknown",
\* zero counts and false booleans.
C15_FallbackShape ==
    run.pc = "built" =>
        LET a == run.analysis.obj
            m == run.analysis.obj["metadata"].obj
        IN  /\ a["summary"] = JsonStr(run.raw_message)
            /\ a["confidence_score"] = JsonNum("0.5")
            /\ a["tech_stack"] = JsonArr(<<>>)
            /\ a["key_features"] = JsonArr(<<>>)
            /\ a["tags"] = JsonArr(<<>>)
            /\ m["language_distribution"] = JsonObj(EmptyDict)
            /\ m["repository_owner"] = JsonStr(run.owner)
            /\ m["repository_name"] = JsonStr(run.repo)
            /\ m["primary_language"] = JsonStr(<<"Unknown">>)
            /\ m["star_count"] = JsonNum("0") /\ m["fork_count"] = JsonNum("0")
            /\ m["has_readme"] = JsonBool(FALSE)
            /\ m["has_tests"] = JsonBool(FALSE)
            /\ m["has_ci"] = JsonBool(FALSE)

C15_Witness ==
    /\ run.pc = "built"
    /\ run.owner = <<"owner">> /\ run.repo = <<"repo">>
    /\ run.raw_message = <<"x", "{">>
    /\ run.analysis.obj["summary"] = JsonStr(<<"x", "{">>)

----------------------------------------------------------------------------
(* C16 *)

Finished == run.pc = "done"

\* the agent returned a reply
HasReply == Finished /\ "_extract_json_from_response" \in Range(run.calls)

\* the extractor returned an object
ExtractionSucceeded == HasReply /\ run.extracted.raised = "None" /\ IsDict(run.extracted.value)

CleanCompletion ==
    /\ run.response.status = "completed"
    /\ "analysis" \in DOMAIN run.response
    /\ "warning" \notin DOMAIN run.response

FallbackCompletion ==
    /\ run.response.status = "completed"
    /\ "warning" \in DOMAIN run.response
    /\ run.response.warning = "Response was not in expected JSON format"

Failure ==
    /\ run.response.status = "failed"
    /\ "error" \in DOMAIN run.response
    /\ "analysis" \notin DOMAIN run.response

\* C16: a finished analyze has status completed with an analysis and no warning
\* exactly when extraction succeeded, status completed with the warning
\* 'Response was not in expected JSON format' exactly when a reply was obtained
\* and extraction did not succeed (the fallback path), and status failed with an
\* error and no analysis when no reply was obtained; every response has a
\* request_id and a status of completed or failed.
C16_Outcomes ==
    Finished =>
        /\ CleanCompletion <=> ExtractionSucceeded
        /\ FallbackCompletion <=> (HasReply /\ ~ExtractionSucceeded)
        /\ ~HasReply => Failure
        /\ "request_id" \in DOMAIN run.response
        /\ run.response.status \in {"completed", "failed"}

----------------------------------------------------------------------------
(* C17 *)

\* C17: once the agent has returned a reply, analyze returns status completed
\* whatever the reply holds, never status failed.
C17_ReplyAlwaysCompleted ==
    HasReply => run.response.status = "completed"

----------------------------------------------------------------------------
(* C18 *)

AnalysisFields ==
    {"summary", "tech_stack", "key_features", "tags", "metadata", "confidence_score"}

HasAnalysisFields(analysis) == IsDict(analysis) /\ AnalysisFields \subseteq DOMAIN analysis.obj

Completed == Finished /\ run.response.status = "completed"

----------------------------------------------------------------------------
(* C19 *)

\* the values that are a GitHub repository URL
ValidRepositoryUrls == {JsonStr(GithubRepoUrl), JsonStr(GithubRepoUrl \o <<"/">>)}

Entered == run.pc \notin {"idle", "start"}

ReachedToken == "_get_github_token" \in Range(run.calls)

ReachedAgent == "agent" \in Range(run.calls)

\* the endpoint answers an invalid URL with 400 INVALID_URL after validate_url
\* alone
EndpointRejectsInvalid ==
    \A r \in DOMAIN req :
        ~validate_url(req[r].repo_url).is_valid =>
            /\ req[r].pc = "done"
            /\ req[r].response = ErrorResponse(r, 400, "INVALID_URL")
            /\ req[r].calls = <<"validate_url">>

RECURSIVE SlashCount(_)
SlashCount(s) ==
    IF s = <<>> THEN 0 ELSE (IF Head(s) = "/" THEN 1 ELSE 0) + SlashCount(Tail(s))

\* what is left of a text without its trailing slashes
RECURSIVE WithoutTrailingSlashes(_)
WithoutTrailingSlashes(s) ==
    IF s = <<>> \/ s[Len(s)] # "/" THEN s
    ELSE WithoutTrailingSlashes(SubSeq(s, 1, Len(s) - 1))

\* absent, empty, no string, or a string without a "/" before its last part
RejectedByAgentTier(v) ==
    \/ IsFalsy(v)
    \/ ~IsStr(v)
    \/ SlashCount(WithoutTrailingSlashes(v.str)) = 0

----------------------------------------------------------------------------
(* C20 *)

\* the requests a call has sent for the repository
RepoRequestsBy(c) ==
    {p \in 1..Len(github.calls[c].sent) : github.calls[c].sent[p] = "/repos/{owner}/{repo}"}

\* the call has its answer from get_rate_limit_info
Consulted(c) == github.calls[c].rate_limit_info # NoneValue

\* C20: check_repository_exists consults the rate limit information before
\* anything else; if it reports is_limited the call raises the rate limit error
\* and has sent no GET /repos/{owner}/{repo}; no such GET is sent by a call that
\* has not consulted it.
C20_LimitedFailsFast ==
    \A c \in Checks :
        /\ RepoRequestsBy(c) # {} =>
                Consulted(c) /\ ~github.calls[c].rate_limit_info.is_limited
        /\ (Consulted(c) /\ github.calls[c].rate_limit_info.is_limited) =>
                /\ github.calls[c].pc = "done"
                /\ github.calls[c].outcome = Raised("GitHub API rate limit exceeded. Resets at")
                /\ RepoRequestsBy(c) = {}

C20_Witness ==
    \E c \in Checks :
        /\ github.calls[c].pc = "done"
        /\ Consulted(c) /\ github.calls[c].rate_limit_info.is_limited
        /\ github.calls[c].outcome.raised = "GitHub API rate limit exceeded. Resets at"
        /\ RepoRequestsBy(c) = {}
        /\ \E other \in Checks : RepoRequestsBy(other) # {}


----------------------------------------------------------------------------
(* C21 *)

LastReply == github.last.reply

LastOutcome == github.calls[github.last.call].outcome

RepoResponse(status) ==
    /\ github.last.op = "repos_reply"
    /\ LastReply.kind = "response"
    /\ LastReply.status_code = status

\* C21: the reply to the GET for the repository decides the outcome of
\* check_repository_exists: 200 returns True, 404 returns False, 403 raises the
\* rate limit error when the body says "rate limit" and returns False when it
\* does not, any other status raises the GitHub API error, a timeout and a
\* network error raise two errors of their own
C21_Classification ==
    /\ RepoResponse(200) => LastOutcome = Returned(JsonBool(TRUE))
    /\ RepoResponse(404) => LastOutcome = Returned(JsonBool(FALSE))
    /\ RepoResponse(403) /\ LastReply.rate_limit_text
         => LastOutcome = Raised("GitHub API rate limit exceeded")
    /\ RepoResponse(403) /\ ~LastReply.rate_limit_text
         => LastOutcome = Returned(JsonBool(FALSE))
    /\ \A status \in RepoStatuses \ {200, 404, 403} :
         RepoResponse(status) => LastOutcome = Raised("GitHub API error")
    /\ github.last.op = "repos_reply" /\ LastReply.kind = "TimeoutException"
         => LastOutcome = Raised("GitHub API request timeout")
    /\ github.last.op = "repos_reply" /\ LastReply.kind = "NetworkError"
         => LastOutcome = Raised("Network error")

C21_Witness ==
    /\ RepoResponse(403) /\ ~LastReply.rate_limit_text
    /\ LastOutcome = Returned(JsonBool(FALSE))

----------------------------------------------------------------------------
(* C22 *)

CacheBefore == github.last.before.rate_limit_cache

ExpiryBefore == github.last.before.cache_expiry

WellFormed(headers) == headers.kind = "numbers"

\* C22: whatever the status of the response to the GET for the repository, when
\* check_repository_exists has returned or raised the cache holds the remaining
\* count of the response's headers, is limited exactly when the count is not
\* positive, then with the headers' reset time, and expires
\* rate_limit_cache_seconds later
C22_HeadersReachCache ==
    \A status \in RepoStatuses :
      RepoResponse(status) /\ WellFormed(LastReply.headers) =>
        /\ github.calls[github.last.call].pc = "done"
        /\ github.rate_limit_cache # NoneValue
        /\ github.rate_limit_cache.remaining = LastReply.headers.remaining
        /\ github.rate_limit_cache.is_limited = (LastReply.headers.remaining <= 0)
        /\ github.rate_limit_cache.is_limited
             => github.rate_limit_cache.reset_time = Datetime(LastReply.headers.reset)
        /\ github.cache_expiry = Datetime(github.last.at + rate_limit_cache_seconds)

C22_Witness ==
    /\ RepoResponse(500) /\ WellFormed(LastReply.headers)
    /\ LastReply.headers.remaining = 0
    /\ CacheBefore = NoneValue
    /\ LastOutcome = Raised("GitHub API error")
    /\ github.rate_limit_cache.is_limited

----------------------------------------------------------------------------
(* C23 *)

LastCall == github.calls[github.last.call]

FreshBefore ==
    /\ CacheBefore # NoneValue /\ ExpiryBefore # NoneValue
    /\ github.last.at < ExpiryBefore.timestamp

Unchanged == github.rate_limit_cache = CacheBefore /\ github.cache_expiry = ExpiryBefore

\* C23: get_rate_limit_info answers from a fresh cache without a request and
\* leaves it as it is; with no fresh cache it sends GET /rate_limit, and on a
\* 200 answer its result has the answer's remaining count, is limited exactly
\* when that count is not positive, and is cached until
\* rate_limit_cache_seconds after the answer
C23_GetInfo ==
    /\ github.last.op = "begin" /\ FreshBefore =>
         /\ LastCall.rate_limit_info = CacheBefore
         /\ \A i \in DOMAIN LastCall.sent : LastCall.sent[i] # "/rate_limit"
         /\ Unchanged
    /\ github.last.op = "begin" /\ ~FreshBefore =>
         /\ LastCall.pc = "rate_limit"
         /\ LastCall.sent = <<"/rate_limit">>
         /\ Unchanged
    /\ github.last.op = "rate_limit_reply" /\ LastReply.kind = "ok" =>
         /\ LastCall.rate_limit_info.remaining = LastReply.remaining
         /\ LastCall.rate_limit_info.is_limited = (LastReply.remaining <= 0)
         /\ github.rate_limit_cache = LastCall.rate_limit_info
         /\ github.cache_expiry = Datetime(github.last.at + rate_limit_cache_seconds)

\* a second call finds the first call's cache fresh
C23_Witness ==
    /\ github.last.op = "begin" /\ FreshBefore
    /\ LastCall.rate_limit_info = CacheBefore
    /\ LastCall.sent = <<"/repos/{owner}/{repo}">>

\* a call after the cache has expired asks again
C23_StaleWitness ==
    /\ github.last.op = "rate_limit_reply" /\ LastReply.kind = "ok"
    /\ CacheBefore # NoneValue /\ ExpiryBefore.timestamp <= github.last.at
    /\ github.cache_expiry.timestamp > ExpiryBefore.timestamp


----------------------------------------------------------------------------
(* C24 *)

ProbeFailed == github.last.op = "rate_limit_reply" /\ LastReply.kind # "ok"

LimitError == Raised("GitHub API rate limit exceeded. Resets at")

\* C24 as stated: after a failed GET /rate_limit (an exception or a status other
\* than 200) get_rate_limit_info gives information that is not limited, and
\* check_repository_exists does not end with the rate limit error
C24_FailedProbeNeverLimits ==
    ProbeFailed => /\ ~LastCall.rate_limit_info.is_limited
                   /\ LastOutcome # LimitError

\* C24: after an exception in GET /rate_limit get_rate_limit_info gives the
\* estimate that is not limited and check_repository_exists goes on to its GET;
\* after a status other than 200 it gives what the response's headers say, which
\* is limited exactly when they carry a remaining count that is not positive,
\* and check_repository_exists then ends with the rate limit error; neither
\* changes the cache
C24_ProbeFailure ==
    ProbeFailed =>
      /\ Unchanged
      /\ LastReply.kind = "exception" => LastCall.rate_limit_info = ConservativeEstimate
      /\ LastReply.kind = "status" =>
           LastCall.rate_limit_info.is_limited
             = (WellFormed(LastReply.headers) /\ LastReply.headers.remaining <= 0)
      /\ IF LastCall.rate_limit_info.is_limited
         THEN LastCall.pc = "done" /\ LastOutcome = LimitError
         ELSE LastCall.pc = "repos" /\ LastOutcome = NoOutcome

C24_Witness ==
    /\ ProbeFailed /\ LastReply.kind = "status"
    /\ LastReply.headers.remaining = 0 /\ WellFormed(LastReply.headers)
    /\ LastOutcome = LimitError
    /\ LastCall.sent = <<"/rate_limit">>


----------------------------------------------------------------------------
(* C25 *)

HeadersGiven ==
    /\ github.last.op = "repos_reply"
    /\ LastReply.kind = "response"

\* C25: _update_rate_limit_cache given headers that are malformed or missing
\* leaves the cached RateLimitInfo and its expiry as they were before the call
C25_BadHeadersIgnored ==
    HeadersGiven /\ ~WellFormed(LastReply.headers) => Unchanged

\* malformed headers alone are ignored
C25_MalformedIgnored ==
    HeadersGiven /\ LastReply.headers.kind = "malformed" => Unchanged

\* missing headers replace a limited cache by the defaults
C25_MissingOverwrites ==
    /\ HeadersGiven /\ LastReply.headers.kind = "missing"
    /\ CacheBefore # NoneValue /\ CacheBefore.is_limited
    /\ github.rate_limit_cache.remaining = default_remaining
    /\ ~github.rate_limit_cache.is_limited


----------------------------------------------------------------------------
(* C26 *)

FreshLimited == CacheFresh(github, now) /\ github.rate_limit_cache.is_limited

FreshLimitedNext ==
    /\ github'.rate_limit_cache # NoneValue /\ github'.cache_expiry # NoneValue
    /\ now' < github'.cache_expiry.timestamp
    /\ github'.rate_limit_cache.is_limited

\* the reply to some call's GET /rate_limit arrives
ProbeAnswered ==
    \E c \in Checks : github.calls[c].pc = "rate_limit" /\ github'.calls[c].pc # "rate_limit"

\* the response to some call's GET for the repository arrives
RepoAnswered ==
    \E c \in Checks : github.calls[c].pc = "repos" /\ github'.calls[c].pc = "done"

\* C26 as stated: a cache that is fresh and limited stays so, and with it the
\* result of get_rate_limit_info, until time passes or the reply to a GET
\* /rate_limit reports a positive remaining count
C26_LimitedUntilExpiry ==
    [][FreshLimited /\ now' = now =>
         \/ FreshLimitedNext
         \/ ProbeAnswered /\ github'.rate_limit_cache.remaining > 0]_vars

\* C26: a check_repository_exists that starts while the cache is fresh and
\* limited is given the cached information and ends with the rate limit error
\* without a request; while no time passes the cache stops being limited only
\* when a reply arrives for a call that was already waiting, either to its GET
\* /rate_limit or to its GET for the repository, and leaves a positive
\* remaining count in the cache
C26_LimitedWhileCached ==
    [][FreshLimited /\ now' = now =>
         /\ \A c \in Checks :
              github.calls[c].pc = "idle" /\ github'.calls[c].pc # "idle" =>
                /\ github'.calls[c].rate_limit_info = github.rate_limit_cache
                /\ github'.calls[c].pc = "done"
                /\ github'.calls[c].outcome = LimitError
                /\ github'.calls[c].sent = <<>>
                /\ FreshLimitedNext
         /\ \/ FreshLimitedNext
            \/ /\ ProbeAnswered \/ RepoAnswered
               /\ github'.rate_limit_cache.remaining > 0]_vars

\* a call that started with the limit in the cache
C26_Witness ==
    \E c \in Checks :
        /\ FreshLimited
        /\ github.calls[c].pc = "done"
        /\ github.calls[c].sent = <<>>
        /\ github.calls[c].rate_limit_info = github.rate_limit_cache
        /\ github.calls[c].outcome = LimitError

\* the limit seen by one call is replaced by the headers of another call's
\* response
C26_OverwrittenWitness ==
    \E c, other \in Checks :
        /\ CacheFresh(github, now) /\ ~github.rate_limit_cache.is_limited
        /\ github.calls[c].pc = "done" /\ github.calls[other].pc = "done"
        /\ github.calls[c].rate_limit_info = ConservativeEstimate
        /\ github.calls[other].outcome = LimitError


----------------------------------------------------------------------------
(* C27 *)

\* C27: is_rate_limited sends nothing and changes neither the cache, its expiry
\* nor any call; it returns (False, None) when there is no cache or the cache
\* has expired, and the cached (is_limited, reset_time) when the cache is fresh
C27_CacheOnlyRead ==
    github.last.op = "is_rate_limited" =>
      /\ Unchanged
      /\ github.calls = github.last.before.calls
      /\ github.last.result =
           IF FreshBefore
           THEN <<CacheBefore.is_limited, CacheBefore.reset_time>>
           ELSE <<FALSE, NoneValue>>

\* an expired cache that recorded the limit is not reported
C27_Witness ==
    /\ github.last.op = "is_rate_limited"
    /\ CacheBefore # NoneValue /\ CacheBefore.is_limited
    /\ ExpiryBefore.timestamp <= github.last.at
    /\ github.last.result = <<FALSE, NoneValue>>

\* a fresh one is
C27_FreshWitness ==
    /\ github.last.op = "is_rate_limited"
    /\ FreshBefore
    /\ github.last.result = <<TRUE, Datetime(3600)>>


----------------------------------------------------------------------------
(* C28 *)

\* self.client.invoke_agent_runtime returned a response
RuntimeReturned ==
    invoke.pc = "done" /\ invoke.reply.kind \in {"response", "undecodable"}

TooLate == invoke.elapsed_time > invoke.timeout_seconds

\* C28: when invoke_agent_runtime has returned, invoke_agent raises TimeoutError
\* exactly when more than timeout_seconds have passed since the start, whatever
\* the body of the response; invoke_agent ends only once the runtime has
\* answered, however long that takes
C28_PostHocTimeout ==
    /\ RuntimeReturned => (invoke.outcome.type = "TimeoutError" <=> TooLate)
    /\ invoke.pc = "done" =>
         /\ invoke.reply # NoneValue
         /\ invoke.elapsed_time = now - invoke.start_time
    /\ invoke.pc = "waiting" =>
         invoke.reply = NoneValue /\ invoke.outcome = InvokeReturned(JsonNull)

\* a late response whose body is no JSON is a timeout
C28_Witness ==
    /\ RuntimeReturned /\ TooLate
    /\ invoke.reply.body = <<"x">> /\ invoke.reply.kind = "response"
    /\ invoke.outcome.type = "TimeoutError"

\* the call is still waiting after timeout_seconds have passed
C28_WaitingWitness ==
    /\ invoke.pc = "waiting"
    /\ now - invoke.start_time > invoke.timeout_seconds

----------------------------------------------------------------------------
(* C29 *)

\* C29: a call of invoke_agent sends one request to the runtime and no more,
\* whether it returns a result or raises TimeoutError, the invalid format error,
\* the invocation failure or anything else
C29_SingleAttempt ==
    /\ invoke.pc = "start" => invoke.requests = 0
    /\ invoke.pc \in {"waiting", "done"} => invoke.requests = 1

C29_Witness ==
    /\ invoke.pc = "done" /\ invoke.requests = 1
    /\ invoke.reply.kind = "ClientError"
    /\ invoke.outcome.type = "Exception"

----------------------------------------------------------------------------
(* C30 *)

\* the bodies that are JSON
JsonBodies == { <<"{", "}">>, <<"{", "\"k\"", ":", "\"k\"", "}">>, <<"[", "]">>, <<"null">> }

\* what the caller can tell from the exception it catches: its type and the
\* start of its message
CaughtAs(outcome) ==
    CASE outcome.type = "return" -> "result"
      [] outcome.type = "TimeoutError" -> "Timeout"
      [] outcome.type = "Exception" /\ outcome.args # <<>>
           /\ outcome.args[1] = "Invalid response format from agent" -> "InvalidResponseFormat"
      [] outcome.type = "Exception" /\ outcome.args # <<>>
           /\ outcome.args[1] = "Agent invocation failed: " -> "InvocationFailed"
      [] OTHER -> "other"

\* what happened to the call
Cause ==
    CASE invoke.reply.kind = "ClientError" -> "InvocationFailed"
      [] invoke.reply.kind = "EndpointConnectionError" -> "other"
      [] TooLate -> "Timeout"
      [] invoke.reply.kind = "undecodable" -> "other"
      [] invoke.reply.body \in JsonBodies -> "result"
      [] OTHER -> "InvalidResponseFormat"

InArgs(text) == \E i \in DOMAIN invoke.outcome.args : invoke.outcome.args[i] = text

\* C30 as stated: the error raised tells the caller what happened, and the one
\* raised for a ClientError carries the service's error code and message
C30_CodeAndMessage ==
    invoke.pc = "done" =>
      /\ CaughtAs(invoke.outcome) = Cause
      /\ invoke.reply.kind = "ClientError" =>
           InArgs(invoke.reply.code) /\ InArgs(invoke.reply.message)

\* C30: a body that is no JSON raises Exception("Invalid response format from
\* agent"), a ClientError raises Exception("Agent invocation failed: " + the
\* service's message) without the service's code, which stays with the
\* ClientError in whose handler the exception is raised, a late response raises
\* TimeoutError, anything else is raised again as it is; the caller can tell the
\* three apart by type and message
C30_Classification ==
    invoke.pc = "done" =>
      /\ CaughtAs(invoke.outcome) = Cause
      /\ invoke.reply.kind = "ClientError" =>
           /\ invoke.outcome.args = <<"Agent invocation failed: ", invoke.reply.message>>
           /\ ~InArgs(invoke.reply.code)
           /\ invoke.outcome.context = invoke.reply
      /\ Cause = "other" => invoke.outcome.type \in {"EndpointConnectionError", "UnicodeDecodeError"}

C30_Witness ==
    /\ invoke.pc = "done"
    /\ invoke.reply.kind = "ClientError" /\ invoke.reply.code = "ThrottlingException"
    /\ invoke.outcome.args = <<"Agent invocation failed: ", "Rate exceeded">>

C30_MalformedWitness ==
    /\ invoke.pc = "done" /\ ~TooLate
    /\ invoke.reply.kind = "response" /\ invoke.reply.body = <<"{">>
    /\ CaughtAs(invoke.outcome) = "InvalidResponseFormat"

----------------------------------------------------------------------------
(* C31 *)

SetsBy(r) == {p \in 1..Len(sets) : sets[p].req = r}

\* C31: a request whose invoke_agent raised TimeoutError is answered with status
\* 504 and code AGENT_TIMEOUT under its own request id, the answer carries no
\* analysis, and the request has made no cache.set and built no cache entry
C31_AgentTimeout ==
    \A r \in DOMAIN req :
        req[r].agent_error = "Timeout" =>
            /\ req[r].pc = "done"
            /\ req[r].response = ErrorResponse(r, 504, "AGENT_TIMEOUT")
            /\ ~req[r].response.success
            /\ "data" \notin DOMAIN req[r].response
            /\ SetsBy(r) = {}
            /\ \A k \in DOMAIN cache : cache[k].value.metadata.request_id # r

\* a timeout while the analysis of an earlier request stays in the cache
C31_Witness ==
    \E r, earlier \in DOMAIN req :
        /\ req[r].agent_error = "Timeout"
        /\ req[r].response.status_code = 504
        /\ req[earlier].repo_url = req[r].repo_url
        /\ DOMAIN cache = {req[r].repo_url}
        /\ cache[req[r].repo_url].value.metadata.request_id = earlier

----------------------------------------------------------------------------
(* C32 *)

RequestFailed(r) == req[r].pc = "done" /\ ~req[r].response.success

\* the kinds of failure of a request
InvalidUrl(r) == RequestFailed(r) /\ req[r].calls = <<"validate_url">>

NotFound(r) == RequestFailed(r) /\ req[r].exists = "not_found"

RateLimited(r) == RequestFailed(r) /\ req[r].exists \in {"rate_limited", "rate_limited_resets_at"}

UpstreamFailed(r) ==
    RequestFailed(r) /\ (req[r].exists \in {"api_error", "timeout"} \/ req[r].agent_error # "none")

\* C32: every failed request is answered with its request id, a code, and a
\* status given by the kind of failure: 400 to 499 for an invalid URL and a
\* repository not found, 429 for the rate limit, 503 or 504 for a failed or
\* timed out check of the repository and for a failed or timed out agent call,
\* and 500 for none of these
C32_StatusByKind ==
    \A r \in DOMAIN req :
        RequestFailed(r) =>
            /\ req[r].response.request_id = r
            /\ req[r].response.code # ""
            /\ InvalidUrl(r) => req[r].response.status_code = 400
            /\ NotFound(r) => req[r].response.status_code \in 400..499
            /\ RateLimited(r) => req[r].response.status_code = 429
            /\ UpstreamFailed(r) => req[r].response.status_code \in {503, 504}
            /\ req[r].response.status_code = 500 =>
                  ~(InvalidUrl(r) \/ NotFound(r) \/ RateLimited(r) \/ UpstreamFailed(r))

\* the part that holds: every kind but a failed check of the repository
C32_StatusByKindButExistsErrors ==
    \A r \in DOMAIN req :
        RequestFailed(r) =>
            /\ req[r].response.request_id = r
            /\ InvalidUrl(r) => req[r].response.status_code = 400
            /\ NotFound(r) => req[r].response.status_code = 404
            /\ RateLimited(r) => req[r].response.status_code = 429
            /\ req[r].agent_error = "Timeout" => req[r].response.status_code = 504
            /\ req[r].agent_error \notin {"none", "Timeout"} => req[r].response.status_code = 503
            /\ req[r].exists \in {"api_error", "timeout"} =>
                  req[r].response = ErrorResponse(r, 500, "INTERNAL_ERROR")

\* the check of the repository timed out and the answer is the internal error
C32_TimeoutIsInternalError ==
    \E r \in DOMAIN req :
        /\ req[r].exists = "timeout"
        /\ req[r].response = ErrorResponse(r, 500, "INTERNAL_ERROR")

----------------------------------------------------------------------------
(* C33 *)

\* the rate limit error came with the time at which the limit resets
ResetTimeKnown(r) == RequestFailed(r) /\ req[r].exists = "rate_limited_resets_at"

\* C33: a request refused for the rate limit while the reset time is known is
\* answered 429 with that reset time in the details of the error
C33_ResetTimePassed ==
    \A r \in DOMAIN req :
        ResetTimeKnown(r) =>
            /\ req[r].response.status_code = 429
            /\ "reset_time" \in DOMAIN req[r].response.details

\* what the endpoint answers instead: no reset time, and the fixed Retry-After
\* of one hour, the same as when no reset time is known
C33_FixedHint ==
    \A r \in DOMAIN req :
        RateLimited(r) => req[r].response = handle_rate_limit_error(r, NoneValue)

C33_FixedHintReached ==
    \E r \in DOMAIN req :
        /\ ResetTimeKnown(r)
        /\ req[r].response.details = EmptyDict
        /\ req[r].response.headers = [retry_after |-> "3600"]

----------------------------------------------------------------------------
(* GitHubValidator.validate_url called on its own: github holds the one call,
   the URL it is given and the ValidationResult it returns *)

MaxOwnerLen == 3

\* the characters of the owner names tried: a letter, the hyphen, a character
\* that only the URL pattern allows, and one that nothing allows
OwnerChars == {"o", "-", ".", "@"}

RECURSIVE NamesUpTo(_)
NamesUpTo(n) ==
    IF n = 0 THEN {<<>>}
    ELSE LET shorter == NamesUpTo(n - 1)
         IN  shorter \cup {Append(name, c) : name \in shorter, c \in OwnerChars}

\* a name of n letters
LongName(n) == [i \in 1..n |-> "o"]

\* the owner names tried: every short name, and the longest allowed name and
\* the shortest name over the length limit
UrlOwners ==
    (NamesUpTo(MaxOwnerLen) \ {<<>>})
        \cup {LongName(GithubNameMaxLen), LongName(GithubNameMaxLen + 1)}

UrlRepos == {<<"r">>, <<".", "r">>}

validate_url_call ==
    /\ github.pc = "start"
    /\ github' = [github EXCEPT !.pc = "done",
                                !.validation_result = validate_url(github.url)]
    /\ UNCHANGED <<wfVars, cacheVars, ghostVars, anVars, ex, run, invoke, leveling>>

ValidateInit ==
    /\ WorkflowIdle /\ CacheIdle /\ AnalyzeIdle
    /\ ex = Idle /\ run = Idle /\ invoke = Idle /\ leveling = Idle
    /\ \E scheme \in {"https://", "http://"}, www \in BOOLEAN, slash \in BOOLEAN,
          owner \in UrlOwners, repo \in UrlRepos :
         github = [pc |-> "start", owner |-> owner, repo |-> repo,
                   url |-> MakeUrl(scheme, www, "github.com", owner, repo, slash),
                   validation_result |-> NoneValue]

ValidateNext == validate_url_call

SpecValidate == ValidateInit /\ [][ValidateNext]_vars

----------------------------------------------------------------------------
(* C34 *)

LeadingHyphen(name) == name[1] = "-"

TrailingHyphen(name) == name[Len(name)] = "-"

DoubleHyphen(name) == \E i \in 1..(Len(name) - 1) : name[i] = "-" /\ name[i + 1] = "-"

TooLong(name) == Len(name) > GithubNameMaxLen

DisallowedCharacter(name) == \E i \in DOMAIN name : name[i] \notin Alnum \cup {"-"}

ViolatesOwnerRule(name) ==
    \/ LeadingHyphen(name) \/ DoubleHyphen(name) \/ TrailingHyphen(name)
    \/ TooLong(name) \/ DisallowedCharacter(name)

\* validate_url has returned for a URL of the accepted form whose owner part
\* breaks the rule for user names
OwnerRefused ==
    /\ github.pc = "done"
    /\ github.repo = <<"r">>
    /\ ViolatesOwnerRule(github.owner)

\* is_valid is true exactly when owner and repo are set and there is no message
ResultConsistent(v) ==
    v.is_valid <=> (v.owner # NoName /\ v.repo # NoName /\ v.error_message = NoMessage)

\* the owner part gets past GITHUB_URL_PATTERN: it starts with a letter or
\* digit and has only letters, digits, periods, underscores and hyphens
OwnerMatchesPattern(name) ==
    name[1] \in Alnum /\ \A i \in DOMAIN name : name[i] \in NameChars

\* C34: a URL whose owner breaks the rule for user names is invalid with a
\* message that names the username, and every result is valid exactly when
\* owner and repo are set and no message is
C34_OwnerNamed ==
    /\ OwnerRefused =>
         /\ ~github.validation_result.is_valid
         /\ github.validation_result.error_message = "Invalid GitHub username"
    /\ github.pc = "done" => ResultConsistent(github.validation_result)

\* C34, amended: such a URL is invalid; the message names the username when
\* the owner part gets past the URL pattern, and is the one for a malformed
\* URL when it does not (leading hyphen, period or underscore, or a character
\* outside letters, digits, periods, underscores and hyphens)
C34_OwnerRefused ==
    /\ OwnerRefused =>
         /\ ~github.validation_result.is_valid
         /\ github.validation_result.owner = NoName
         /\ github.validation_result.error_message =
              IF OwnerMatchesPattern(github.owner)
              THEN "Invalid GitHub username"
              ELSE "Invalid GitHub URL format"
    /\ github.pc = "done" => ResultConsistent(github.validation_result)

C34_Witness ==
    /\ OwnerRefused
    /\ LeadingHyphen(github.owner)
    /\ github.validation_result.error_message = "Invalid GitHub URL format"

C34_WitnessNamed ==
    /\ OwnerRefused
    /\ TrailingHyphen(github.owner) /\ ~LeadingHyphen(github.owner)
    /\ github.validation_result.error_message = "Invalid GitHub username"

----------------------------------------------------------------------------
(* C35 *)

\* the tasks of the waves before wave n
TasksBefore(n) == UNION {GroupMembers(m) : m \in 1..(n - 1)}

\* the task whose reply results holds under name d once the waves before n are
\* merged: the last task of that name, by wave and by place in its wave
LastNamed(n, d) ==
    CHOOSE j \in TasksBefore(n) :
        /\ NameOf(j) = d
        /\ \A k \in TasksBefore(n) :
              NameOf(k) = d =>
                  \/ WaveOf(k) < WaveOf(j)
                  \/ WaveOf(k) = WaveOf(j) /\ k <= j

PayloadOf(j) == invoked[CHOOSE p \in LogPositions : invoked[p].task = j].payload

\* the results dict after the waves before n: the replies to the calls logged
\* for their tasks
ResultsBefore(n) ==
    [d \in NamesBefore(n) |->
        AgentReply(get_agent_arn(d).arn, PayloadOf(LastNamed(n, d)))]

\* every task of the waves before n was invoked, has replied and is merged
WavesDoneBefore(n) ==
    \A j \in TasksBefore(n) :
        /\ j \in started /\ j \notin DOMAIN inflight
        /\ \E p \in LogPositions : invoked[p].task = j
        /\ NameOf(j) \in DOMAIN results

\* the replies of the current wave gathered so far are in no result
SiblingsApart ==
    /\ DOMAIN group_results \subseteq GroupMembers(wave)
    /\ results = ResultsBefore(wave)

\* C35: in parallel mode no task of a wave is invoked until every task of the
\* earlier waves has completed, a task's input holds the results of earlier
\* waves only and never a sibling's, and results changes only when the whole
\* current wave has replied
C35_WaveJoin ==
    /\ [](  (workflow_type = "parallel" /\ wave \in 1..Len(task_groups)) =>
              /\ \A i \in started : WaveOf(i) <= wave /\ WavesDoneBefore(WaveOf(i))
              /\ SiblingsApart
              /\ \A p \in LogPositions :
                    invoked[p].payload =
                        resolve_dependencies(tasks[invoked[p].task],
                                             ResultsBefore(WaveOf(invoked[p].task))))
    /\ [][ (workflow_type = "parallel" /\ results' # results) =>
              /\ GroupMembers(wave) \subseteq DOMAIN group_results
              /\ inflight = EmptyDict
              /\ wave' = wave + 1 ]_vars

\* a task of the second wave is invoked after a sibling of the same name has
\* replied, and is given the first wave's result, not the sibling's
C35_Witness ==
    /\ workflow_type = "parallel" /\ wave = 2 /\ Len(task_groups) = 2
    /\ \E i, j \in GroupMembers(2) :
          /\ i # j /\ NameOf(j) \in DepsOf(i)
          /\ j \in DOMAIN group_results /\ Len(invoked) = 3 /\ invoked[3].task = i
          /\ invoked[3].payload[ResultKey(NameOf(j))] # group_results[j]
          /\ invoked[3].payload[ResultKey(NameOf(j))] = results[NameOf(j)]

----------------------------------------------------------------------------
(* C36 *)

\* the agent reply from which request r built its analysis, if it built one
BuiltFrom(r) == req[r].result

\* C36: every analysis stored in the cache and every successful answer built
\* by a request comes from an agent reply with status "completed"
C36_OnlyCompletedStored ==
    /\ \A p \in 1..Len(sets) : BuiltFrom(sets[p].req).status = "completed"
    /\ \A r \in DOMAIN req :
          (req[r].pc = "done" /\ req[r].response.success /\ BuiltFrom(r) # NoneValue) =>
              BuiltFrom(r).status = "completed"

\* a reply with status "failed" was answered as a success with an empty
\* summary, and that analysis is in the cache
C36_FailedReplyStored ==
    \E r \in DOMAIN req :
        /\ req[r].pc = "done" /\ BuiltFrom(r) # NoneValue
        /\ BuiltFrom(r).status = "failed"
        /\ req[r].response = AnalysisResponse(r, ProjectAnalysis(r, BuiltFrom(r)))
        /\ req[r].response.data.summary = ""
        /\ cache_key(req[r].repo_url) \in DOMAIN cache
        /\ cache[cache_key(req[r].repo_url)].value = req[r].response.data

----------------------------------------------------------------------------
(* C37 *)

\* the cache lookup of request r found an entry
CacheHit(r) == req[r].cached_result # NoneValue

\* the entry under key is past its time to live
Expired(key) == now - cache[key].timestamp > cache_ttl_seconds

\* who calls cache.set: a request answered with success after a miss, once
SetOnlyOnSuccess ==
    \A r \in DOMAIN req :
        /\ Cardinality(SetsBy(r)) <= 1
        /\ SetsBy(r) # {} => (req[r].pc = "done" /\ req[r].response.success /\ ~CacheHit(r))
        /\ CacheHit(r) => SetsBy(r) = {}
        /\ RequestFailed(r) => SetsBy(r) = {}

\* C37: a request that fails has changed nothing in the cache, and cache.set is
\* called only on the success path of a miss, at most once per request, never
\* on a hit
C37_FailureLeavesCache ==
    /\ SetOnlyOnSuccess
    /\ \A r \in DOMAIN req : RequestFailed(r) => ~req[r].evicted

\* C37, amended: a request that fails has called no cache.set; the one change
\* it can have made is the removal, by its cache.get, of the expired entry
\* under its own key, and then it failed in the agent call. Every change of
\* the cache is a set by a succeeding request or such a removal.
C37_FailureSetsNothing ==
    /\ [](SetOnlyOnSuccess)
    /\ [](\A r \in DOMAIN req :
            (RequestFailed(r) /\ req[r].evicted) =>
                (req[r].agent_error # "none" /\ ~CacheHit(r)))
    /\ [][cache' # cache =>
            \/ /\ Len(sets') = Len(sets) + 1
               /\ LET r == sets'[Len(sets')].req
                      key == cache_key(req[r].repo_url)
                  IN  /\ req'[r].pc = "done" /\ req'[r].response.success
                      /\ cache' = DictSet(cache, key, cache'[key])
                      /\ cache'[key] = [value |-> req'[r].response.data, timestamp |-> now]
            \/ /\ sets' = sets
               /\ \E key \in DOMAIN cache :
                     Expired(key) /\ cache' = DictDel(cache, key)]_vars

\* a request removed the expired entry under its URL and then failed
C37_Witness ==
    \E r \in DOMAIN req :
        /\ RequestFailed(r) /\ req[r].evicted
        /\ req[r].agent_error = "Timeout"
        /\ SetsBy(r) = {}
        /\ sets # <<>> /\ cache = EmptyDict

----------------------------------------------------------------------------
(* C38 *)

Answered(r) == req[r].pc = "done" /\ req[r].response.success

\* C38: in every successful answer the request id in the metadata of the
\* analysis is the request id of the answer, whether or not it came from the
\* cache
C38_RequestIdThreaded ==
    \A r \in DOMAIN req :
        Answered(r) =>
            /\ req[r].response.request_id = r
            /\ req[r].response.data.metadata.request_id = req[r].response.request_id

\* what holds instead: the answer carries the request's own id, and the
\* metadata carry the id of the request that stored the analysis
C38_StoredIdServed ==
    \A r \in DOMAIN req :
        Answered(r) =>
            /\ req[r].response.request_id = r
            /\ ~CacheHit(r) => req[r].response.data.metadata.request_id = r
            /\ CacheHit(r) =>
                 /\ req[r].response.data.metadata.request_id # r
                 /\ SetsBy(req[r].response.data.metadata.request_id) # {}

\* a request answered from the cache with the metadata of an earlier request
C38_OtherIdReached ==
    \E r \in DOMAIN req :
        /\ Answered(r) /\ CacheHit(r)
        /\ req[r].response.request_id = 2
        /\ req[r].response.data.metadata.request_id = 1

----------------------------------------------------------------------------
(* C39 *)

\* distinct agent names, and every dependency names an earlier task of the list
WellOrdered ==
    /\ \A i, j \in TaskIds : i # j => NameOf(i) # NameOf(j)
    /\ \A i \in TaskIds : \A d \in DepsOf(i) : \E j \in 1..(i - 1) : NameOf(j) = d

AllRegistered == \A i \in TaskIds : NameOf(i) \in RegisteredAgents

\* results after the first n tasks have run one after another, each answered
\* by the deterministic agent
RECURSIVE ExpectedResults(_)
ExpectedResults(n) ==
    IF n = 0 THEN EmptyDict
    ELSE LET before == ExpectedResults(n - 1)
         IN  DictSet(before, NameOf(n),
                     AgentReply(get_agent_arn(NameOf(n)).arn,
                                resolve_dependencies(tasks[n], before)))

ExpectedInput(i) == resolve_dependencies(tasks[i], ExpectedResults(i - 1))

\* the workflow is over and no call of the agent runtime failed
Ended == wpc = "done" /\ ~(Failed /\ response.detail \in InvocationErrors)

InvokedTasks == {invoked[p].task : p \in LogPositions}

InputsAgree ==
    /\ \A p \in LogPositions : invoked[p].payload = ExpectedInput(invoked[p].task)
    /\ \A p, q \in LogPositions : invoked[p].task = invoked[q].task => p = q

C39_SiblingInvoked ==
    /\ WellOrdered /\ Failed /\ response.detail = "UnknownAgent"
    /\ workflow_type = "parallel"
    /\ 1 \in Unregistered /\ InvokedTasks = {2}

----------------------------------------------------------------------------
(* AgentOrchestrator._group_by_dependencies run one iteration of its while
   loop at a time: leveling holds groups, remaining and completed; tasks are
   held by their place in the list *)

\* an iteration that puts the tasks it cannot level in a last wave
group_by_dependencies_iteration_no_raise ==
    /\ leveling.pc = "loop"
    /\ IF leveling.remaining = <<>>
       THEN leveling' = [leveling EXCEPT !.pc = "returned"]
       ELSE LET Ready(i) == \A k \in 1..Len(tasks[i].depends_on) :
                                tasks[i].depends_on[k] \in leveling.completed
                current_group == SelectSeq(leveling.remaining, Ready)
            IN  IF current_group = <<>>
                THEN leveling' = [leveling EXCEPT
                                    !.groups = Append(@, leveling.remaining),
                                    !.remaining = <<>>]
                ELSE leveling' =
                        [leveling EXCEPT
                            !.groups = Append(@, current_group),
                            !.completed = @ \cup {tasks[i].agent_name : i \in Range(current_group)},
                            !.remaining = SelectSeq(@, LAMBDA i : i \notin Range(current_group))]
    /\ UNCHANGED <<wfVars, cacheVars, ghostVars, anVars, ex, run, github, invoke>>

\* one pass of "while remaining": return when nothing remains, else build
\* current_group, raise ValueError when it is empty, else append it and move
\* its tasks from remaining to completed
group_by_dependencies_iteration ==
    /\ leveling.pc = "loop"
    /\ IF leveling.remaining = <<>>
       THEN leveling' = [leveling EXCEPT !.pc = "returned"]
       ELSE LET Ready(i) == \A k \in 1..Len(tasks[i].depends_on) :
                                tasks[i].depends_on[k] \in leveling.completed
                current_group == SelectSeq(leveling.remaining, Ready)
            IN  IF current_group = <<>>
                THEN leveling' = [leveling EXCEPT !.pc = "raised"]
                ELSE leveling' =
                        [leveling EXCEPT
                            !.groups = Append(@, current_group),
                            !.completed = @ \cup {tasks[i].agent_name : i \in Range(current_group)},
                            !.remaining = SelectSeq(@, LAMBDA i : i \notin Range(current_group))]
    /\ UNCHANGED <<wfVars, cacheVars, ghostVars, anVars, ex, run, github, invoke>>

\* groups = [], remaining = tasks.copy(), completed = set()
LevelingInit ==
    /\ CacheIdle /\ AnalyzeIdle
    /\ ex = Idle /\ run = Idle /\ github = Idle /\ invoke = Idle
    /\ tasks \in TaskLists
    /\ workflow_type = "parallel" /\ wpc = "idle" /\ idx = 1
    /\ task_groups = <<>> /\ wave = 0 /\ started = {} /\ inflight = EmptyDict
    /\ group_results = EmptyDict /\ skipped = {} /\ results = EmptyDict
    /\ execution_order = <<>> /\ invoked = <<>> /\ response = NoResponse
    /\ leveling = [pc |-> "loop", groups |-> <<>>,
                   remaining |-> [i \in 1..Len(tasks) |-> i], completed |-> {}]

LevelingNext == group_by_dependencies_iteration

\* the call is synchronous: the loop runs until it returns or raises
SpecLeveling == LevelingInit /\ [][LevelingNext]_vars /\ WF_vars(LevelingNext)

----------------------------------------------------------------------------
(* C40 *)

\* the tasks that can never be leveled: the largest set of tasks each of
\* which has a dependency that is named by no task outside the set (by no
\* task at all, or only by tasks of the set)
NeverReady(S) ==
    \A i \in S : \E d \in DepsOf(i) : \A j \in TaskIds : NameOf(j) = d => j \in S

Unsatisfiable == \E S \in (SUBSET TaskIds) \ {{}} : NeverReady(S)

LevelingOver == leveling.pc \in {"returned", "raised"}

\* every task is in exactly one wave
WavesPartition(groups) ==
    /\ \A i \in TaskIds : \E n \in 1..Len(groups) : i \in Range(groups[n])
    /\ \A n, m \in 1..Len(groups) : n # m => Range(groups[n]) \cap Range(groups[m]) = {}
    /\ \A n \in 1..Len(groups) :
          /\ groups[n] # <<>>
          /\ \A a, b \in 1..Len(groups[n]) : a # b => groups[n][a] # groups[n][b]

\* C40: dependency leveling terminates; every iteration raises the circular
\* dependency error or takes at least one task out of remaining; on return the
\* waves partition the task list; and the error is raised exactly when some
\* task has a dependency that can never complete
C40_LevelingTerminates ==
    /\ <>LevelingOver
    /\ [][leveling.pc = "loop" =>
            \/ leveling'.pc = "raised"
            \/ leveling'.pc = "returned" /\ leveling.remaining = <<>>
            \/ /\ leveling'.pc = "loop"
               /\ Len(leveling'.remaining) < Len(leveling.remaining)]_leveling
    /\ [](leveling.pc = "returned" =>
            /\ WavesPartition(leveling.groups)
            /\ ~Unsatisfiable
            /\ group_by_dependencies(tasks) = [raised |-> "none", groups |-> leveling.groups])
    /\ [](leveling.pc = "raised" =>
            /\ Unsatisfiable
            /\ leveling.remaining # <<>>
            /\ NeverReady(Range(leveling.remaining))
            /\ group_by_dependencies(tasks).raised = "CircularDependency")

\* a list whose first task is leveled and whose other two wait for each other
C40_Witness ==
    /\ leveling.pc = "raised"
    /\ Len(leveling.groups) = 1 /\ leveling.remaining = <<2, 3>>
    /\ NameOf(2) # NameOf(3)
    /\ NameOf(3) \in DepsOf(2) /\ NameOf(2) \in DepsOf(3)

\* three tasks leveled in three waves
C40_WitnessReturned ==
    /\ leveling.pc = "returned"
    /\ Len(leveling.groups) = 3 /\ Len(tasks) = 3
    /\ WavesPartition(leveling.groups)

====
